---- MODULE Spec2Model ----
(***************************************************************************)
(* LinkedIn Insights microservice (FastAPI + pymongo + selenium).          *)
(*                                                                         *)
(* The state is the MongoDB collections pages, posts and employees, the    *)
(* process-wide scraper session of api/routes.py, and one record per       *)
(* request being served.  Documents are Python dicts: functions from key   *)
(* names to values whose DOMAIN is the set of keys the dict carries.       *)
(* A collection is the sequence of its documents in insertion order; the   *)
(* store-assigned _id of a document is its place in that order and is not  *)
(* kept as a key.                                                          *)
(***************************************************************************)
EXTENDS Integers, Sequences, FiniteSets, TLC

\* ------------------------------------------------------------------ bounds
\* Readings of datetime.utcnow() a behaviour may take (create_page calls).
MaxClock == 2
\* Requests a behaviour of the handler specifications takes.
MaxRequests == 2
\* Comments of one list handed to create_comments.
MaxComments == 2
\* Posts of a list that holds records without linkedin_post_id.
MaxMixed == 3
\* Page numbers and page sizes of the listing requests.
MaxPage == 3
MaxPageSize == 3
\* Employees of one page in the databases the listings are asked on.
MaxListed == 5
\* The listing of the example: 25 records, 10 on a page.
ExampleListed == 25
ExamplePageSize == 10
\* Employees an ingestion inserts after another ingestion of the same page
\* has inserted its own.
LateEmployees == 10
\* Post elements the posts tab of a company shows to one scrape.
MaxPosts == 1
\* Profile cards the people tab of a company shows to one scrape.
MaxEmployees == 1
\* Documents in one direct call of create_posts / create_employees.
MaxBatch == 2

\* ------------------------------------------------------- program constants
\* routes.py: scrape_company_posts(page_id, max_posts=15)
max_posts == 15
\* routes.py: scrape_company_employees(page_id, max_employees=50)
max_employees == 50
\* routes.py get_page_details: get_posts_by_page(page_id, limit=15)
detail_posts_limit == 15
\* routes.py get_page_details: get_employees_by_page(page_id, page=1, page_size=50)
detail_employees_page_size == 50
\* routes.py get_page_posts: limit: int = Query(15, ...)
default_limit == 15
\* routes.py get_page_employees: page_size: int = Query(20, ...)
default_page_size == 20

\* ------------------------------------------------------------------ values
\* Python None as the value of a text field.
None == "None"
\* Python None where a document (dict) or a list of segments is expected:
\* find_one found nothing, a post link was not found.
NoDoc == <<>>

PageIds == {"a", "b"}

\* `not v` for a text value: None and "" are falsy.
Falsy(v) == v = None \/ v = ""

\* dict.get(key): None when the dict does not carry the key.
get(d, key) == IF key \in DOMAIN d THEN d[key] ELSE None

Min(m, n) == IF m <= n THEN m ELSE n

\* s[:n]
Take(s, n) == SubSeq(s, 1, Min(n, Len(s)))

\* {**old, **new}: the dict MongoDB's $set leaves: keys of new overwrite,
\* keys only old carries stay.
SetFields(old, new) ==
    [k \in DOMAIN old \cup DOMAIN new |->
        IF k \in DOMAIN new THEN new[k] ELSE old[k]]

\* ------------------------------------------------- pymongo collection calls
\* A filter {key: val} matches the documents carrying key with that value.
Matches(doc, key, val) == key \in DOMAIN doc /\ doc[key] = val

MatchIdx(coll, key, val) == {i \in 1..Len(coll) : Matches(coll[i], key, val)}

FirstIdx(S) == CHOOSE i \in S : \A j \in S : i <= j

\* collection.find_one({key: val})
find_one(coll, key, val) ==
    IF MatchIdx(coll, key, val) = {} THEN NoDoc
    ELSE coll[FirstIdx(MatchIdx(coll, key, val))]

\* collection.count_documents({key: val})
count_documents(coll, key, val) == Cardinality(MatchIdx(coll, key, val))

\* collection.find({key: val}) as a list
find(coll, key, val) == SelectSeq(coll, LAMBDA d : Matches(d, key, val))

\* collection.update_one({key: val}, {"$set": data})
update_one(coll, key, val, data) ==
    IF MatchIdx(coll, key, val) = {} THEN coll
    ELSE [coll EXCEPT ![FirstIdx(MatchIdx(coll, key, val))] = SetFields(@, data)]

\* The unique index on `key` (main.py lifespan) refuses a second document
\* with the same key value: insert_one raises DuplicateKeyError.
DuplicateKey(coll, key, doc) ==
    key \in DOMAIN doc /\ MatchIdx(coll, key, doc[key]) # {}

\* collection.insert_one(doc), when no index refuses it
insert_one(coll, doc) == Append(coll, doc)

\* collection.insert_many(docs) on a collection without unique index
insert_many(coll, docs) == coll \o docs

\* collection.delete_one({key: val})
delete_one(coll, key, val) ==
    IF MatchIdx(coll, key, val) = {} THEN coll
    ELSE LET i == FirstIdx(MatchIdx(coll, key, val))
         IN  SubSeq(coll, 1, i - 1) \o SubSeq(coll, i + 1, Len(coll))

\* collection.delete_many({key: val})
delete_many(coll, key, val) == SelectSeq(coll, LAMBDA d : ~Matches(d, key, val))

\* ------------------------------------------------- services/scraper_service
\* The text of h1.org-top-card-summary__title on the page of company c.
SiteName(c) == IF c = "a" THEN "Acme" ELSE "Bolt"

CompanyUrl(c) == <<"https://www.linkedin.com/company/", c, "/">>
PostsUrl(c) == <<"https://www.linkedin.com/company/", c, "/posts/">>
PeopleUrl(c) == <<"https://www.linkedin.com/company/", c, "/people/">>
LoginUrl == <<"https://www.linkedin.com/login">>
FeedUrl == <<"https://www.linkedin.com/feed/">>

\* What the selectors of scrape_company_page find in the browser while it
\* shows a page of company `shown`.  name: the h1 text, or None when the wait
\* for it fails.  followers: the digits of the info item, 0 when it is
\* missing.  tail: "script_error" when execute_script raises (the outer
\* except returns what was collected so far), "no_industry" when no
\* definition-text element qualifies, "industry" when one does.
\* description and profile_image_url are set like name and followers_count;
\* headcount, location, founded_year and specialities are set like website.
CompanyViews(shown) ==
    [name : {SiteName(shown), None, ""},
     followers : {0, 10},
     tail : {"script_error", "no_industry", "industry"}]

\* The views the handler specifications draw from: a profile that exists
\* with every section, or one whose name is not found.
CompanyViewsSeq(shown) ==
    [name : {SiteName(shown), None, ""},
     followers : {10},
     tail : {"industry"}]

\* scrape_company_page(company_id) after driver.get(url): the dict built
\* from what the browser shows.
scrape_company_page(company_id, view) ==
    LET head == ("page_id" :> company_id) @@ ("url" :> CompanyUrl(company_id))
                @@ ("name" :> view.name)
                @@ ("followers_count" :> view.followers)
        website == ("website" :> "https://site.example")
        industry == ("industry" :> "Software")
    IN  CASE view.tail = "script_error" -> head
          [] view.tail = "no_industry" -> head @@ website
          [] view.tail = "industry" -> head @@ website @@ industry

\* f"{company_id}-post-{idx}"
FallbackPostId(company_id, idx) ==
    IF company_id = "a"
    THEN <<"a-post-0", "a-post-1", "a-post-2", "a-post-3", "a-post-4",
           "a-post-5", "a-post-6", "a-post-7", "a-post-8", "a-post-9",
           "a-post-10", "a-post-11", "a-post-12", "a-post-13", "a-post-14">>[idx + 1]
    ELSE <<"b-post-0", "b-post-1", "b-post-2", "b-post-3", "b-post-4",
           "b-post-5", "b-post-6", "b-post-7", "b-post-8", "b-post-9",
           "b-post-10", "b-post-11", "b-post-12", "b-post-13", "b-post-14">>[idx + 1]

\* The href of the post link of the feed item of company c, as its
\* ":"-separated segments.
SitePermalink(c) ==
    IF c = "a"
    THEN <<"https", "//www.linkedin.com/feed/update/urn", "li", "activity", "7001">>
    ELSE <<"https", "//www.linkedin.com/feed/update/urn", "li", "activity", "7002">>

\* permalink.split(":")[-1]
LastSegment(permalink) == permalink[Len(permalink)]

\* A div.feed-shared-update-v2 element: href is the permalink of its post
\* link or NoDoc when the link is not found, text its description.
PostElements(shown) ==
    [href : {SitePermalink(shown), NoDoc}, text : {"hello", "news"}]

\* One post_data of scrape_company_posts (lines 184-220); every key is set
\* on every path.  posted_at, likes_count and comments_count are set like
\* content.
scrape_post(company_id, idx, elem) ==
    (IF elem.href = NoDoc
     THEN ("linkedin_post_id" :> FallbackPostId(company_id, idx))
          @@ ("permalink" :> NoDoc)
     ELSE ("linkedin_post_id" :> LastSegment(elem.href))
          @@ ("permalink" :> elem.href))
    @@ ("content" :> elem.text) @@ ("page_id" :> company_id)

\* scrape_company_posts(company_id, max_posts) after driver.get(url), for
\* the post elements the browser shows.
scrape_company_posts(company_id, n, elems) ==
    [i \in 1..Len(Take(elems, n)) |-> scrape_post(company_id, i - 1, elems[i])]

\* A li.org-people-profile-card element: the text of its title.
EmployeeElements == {"Ann", "Bob"}

\* scrape_company_employees(company_id, max_employees) after driver.get(url).
\* profile_url, headline and location are set like full_name.
scrape_company_employees(company_id, n, elems) ==
    [i \in 1..Len(Take(elems, n)) |->
        ("type" :> "EMPLOYEE") @@ ("page_id" :> company_id)
        @@ ("full_name" :> elems[i])]

\* Sequences over S of length 0..n.
SeqUpTo(S, n) == UNION {[1..k -> S] : k \in 0..n}

\* ------------------------------------------------ services/database_service
\* get_page_by_id(page_id)
get_page_by_id(coll, page_id) == find_one(coll, "page_id", page_id)

\* create_page, line 26: page_data["scraped_at"] = datetime.utcnow()
stamp(page_data, t) == SetFields(page_data, "scraped_at" :> t)

\* create_page that inserts without looking at existing, on a collection
\* without the unique index.
create_page_write_AlwaysInsert(coll, existing, page_data) ==
    [coll |-> insert_one(coll, page_data), raised |-> FALSE]

\* create_page, lines 31-41: update the existing page or insert a new one.
\* raised: insert_one hit the unique index on page_id.
create_page_write(coll, existing, page_data) ==
    IF existing # NoDoc
    THEN [coll |-> update_one(coll, "page_id", page_data["page_id"], page_data),
          raised |-> FALSE]
    ELSE IF DuplicateKey(coll, "page_id", page_data)
    THEN [coll |-> coll, raised |-> TRUE]
    ELSE [coll |-> insert_one(coll, page_data), raised |-> FALSE]

\* create_page(page_data) run without interruption at time t.
create_page(coll, page_data, t) ==
    LET data == stamp(page_data, t)
        existing == find_one(coll, "page_id", data["page_id"])
        w == create_page_write(coll, existing, data)
    IN  [coll |-> w.coll, ret |-> data, raised |-> w.raised]

\* create_posts that counts an updated post as inserted.
create_posts_write_CountsUpdates(coll, existing, post) ==
    IF existing # NoDoc
    THEN [coll |-> update_one(coll, "linkedin_post_id", post["linkedin_post_id"], post),
          inserted |-> 1]
    ELSE IF DuplicateKey(coll, "linkedin_post_id", post)
    THEN [coll |-> coll, inserted |-> 0]
    ELSE [coll |-> insert_one(coll, post), inserted |-> 1]

\* create_posts that appends every post, on a collection without the unique
\* index.
create_posts_write_Appends(coll, existing, post) ==
    [coll |-> insert_one(coll, post), inserted |-> 1]

\* create_posts, lines 95-104: the write of one post after its find_one.
\* A DuplicateKeyError of insert_one is caught by the except of the loop.
create_posts_write(coll, existing, post) ==
    IF existing # NoDoc
    THEN [coll |-> update_one(coll, "linkedin_post_id", post["linkedin_post_id"], post),
          inserted |-> 0]
    ELSE IF DuplicateKey(coll, "linkedin_post_id", post)
    THEN [coll |-> coll, inserted |-> 0]
    ELSE [coll |-> insert_one(coll, post), inserted |-> 1]

\* create_posts, lines 91-107: one turn of the loop.  post["linkedin_post_id"]
\* raises KeyError for a post without the key; the except skips the post.
create_posts_one(coll, post) ==
    IF "linkedin_post_id" \notin DOMAIN post
    THEN [coll |-> coll, inserted |-> 0]
    ELSE create_posts_write(
             coll, find_one(coll, "linkedin_post_id", post["linkedin_post_id"]), post)

RECURSIVE create_posts_from_StopsAtFailure(_, _, _, _)
\* create_posts whose loop ends at the first post that fails.
create_posts_from_StopsAtFailure(coll, list, i, inserted_count) ==
    IF i > Len(list) \/ "linkedin_post_id" \notin DOMAIN list[i]
    THEN [coll |-> coll, ret |-> inserted_count]
    ELSE LET one == create_posts_one(coll, list[i])
         IN  create_posts_from_StopsAtFailure(one.coll, list, i + 1,
                                              inserted_count + one.inserted)

RECURSIVE create_posts_from(_, _, _, _)
create_posts_from(coll, list, i, inserted_count) ==
    IF i > Len(list)
    THEN [coll |-> coll, ret |-> inserted_count]
    ELSE LET one == create_posts_one(coll, list[i])
         IN  create_posts_from(one.coll, list, i + 1, inserted_count + one.inserted)

\* create_posts(posts) run without interruption.
create_posts(coll, list) ==
    IF Len(list) = 0 THEN [coll |-> coll, ret |-> 0]
    ELSE create_posts_from(coll, list, 1, 0)

\* create_employees without the delete_many.
create_employees_delete_Nothing(coll, list) == coll

\* create_employees, lines 127-129: delete the employees of the page of the
\* first record.
create_employees_delete(coll, list) ==
    IF ~Falsy(get(list[1], "page_id"))
    THEN delete_many(coll, "page_id", get(list[1], "page_id"))
    ELSE coll

\* create_employees whose early return on an empty list clears the
\* collection.
create_employees_ClearsOnEmpty(coll, list) ==
    IF Len(list) = 0 THEN [coll |-> <<>>, ret |-> 0]
    ELSE [coll |-> insert_many(create_employees_delete(coll, list), list),
          ret |-> Len(list)]

\* create_employees(employees) run without interruption.
create_employees(coll, list) ==
    IF Len(list) = 0 THEN [coll |-> coll, ret |-> 0]
    ELSE [coll |-> insert_many(create_employees_delete(coll, list), list),
          ret |-> Len(list)]

\* The characters of the texts a page can carry as name or industry.
Chars(text) ==
    CASE text = "Acme" -> <<"A", "c", "m", "e">>
      [] text = "Bolt" -> <<"B", "o", "l", "t">>
      [] text = "Software" -> <<"S", "o", "f", "t", "w", "a", "r", "e">>
      [] OTHER -> <<>>

\* Case folding of the "i" option, for the letters in use.
Lower(ch) ==
    CASE ch = "A" -> "a"
      [] ch = "B" -> "b"
      [] ch = "C" -> "c"
      [] ch = "F" -> "f"
      [] ch = "M" -> "m"
      [] ch = "O" -> "o"
      [] ch = "S" -> "s"
      [] ch = "T" -> "t"
      [] OTHER -> ch

\* {"$regex": pattern, "$options": "i"} on the field key of doc, for a
\* pattern of literal characters: the pattern occurs in the text, case
\* ignored.  A missing or None field matches no pattern.
regex_i(doc, key, pattern) ==
    /\ key \in DOMAIN doc
    /\ doc[key] # None
    /\ LET text == Chars(doc[key])
       IN  \E i \in 0..(Len(text) - Len(pattern)) :
               \A j \in 1..Len(pattern) : Lower(pattern[j]) = Lower(text[i + j])

\* get_pages_with_filters, lines 55-68: the query built from the filters
\* given.  filters carries the keys of the parameters that are not None;
\* name and industry are sequences of characters, an empty one is falsy.
PageQuery(filters) ==
    [k \in {key \in DOMAIN filters :
                key \in {"name", "industry"} => Len(filters[key]) > 0}
        |-> filters[k]]

\* The query with a follower range that excludes its ends.
MatchesQuery_Exclusive(doc, query) ==
    /\ "min_followers" \in DOMAIN query =>
           ("followers_count" \in DOMAIN doc
            /\ doc["followers_count"] > query["min_followers"])
    /\ "max_followers" \in DOMAIN query =>
           ("followers_count" \in DOMAIN doc
            /\ doc["followers_count"] < query["max_followers"])
    /\ "name" \in DOMAIN query => regex_i(doc, "name", query["name"])
    /\ "industry" \in DOMAIN query => regex_i(doc, "industry", query["industry"])

\* A page document satisfies the query: every condition of the query holds.
MatchesQuery(doc, query) ==
    /\ "min_followers" \in DOMAIN query =>
           ("followers_count" \in DOMAIN doc
            /\ doc["followers_count"] >= query["min_followers"])
    /\ "max_followers" \in DOMAIN query =>
           ("followers_count" \in DOMAIN doc
            /\ doc["followers_count"] <= query["max_followers"])
    /\ "name" \in DOMAIN query => regex_i(doc, "name", query["name"])
    /\ "industry" \in DOMAIN query => regex_i(doc, "industry", query["industry"])

RECURSIVE Select(_, _)
\* The documents of coll that satisfy query, in the order of coll.
Select(coll, query) ==
    IF Len(coll) = 0 THEN <<>>
    ELSE IF MatchesQuery(coll[1], query)
    THEN <<coll[1]>> \o Select(Tail(coll), query)
    ELSE Select(Tail(coll), query)

\* get_pages_with_filters(min_followers, max_followers, name, industry,
\* page, page_size), lines 45-81.
get_pages_with_filters(coll, filters, page, page_size) ==
    LET matching == Select(coll, PageQuery(filters))
    IN  [items |-> Take(SubSeq(matching, (page - 1) * page_size + 1, Len(matching)),
                        page_size),
         total |-> Len(matching)]

\* get_posts_by_page(page_id, limit); the sort on posted_at is not modelled.
get_posts_by_page(coll, page_id, limit) ==
    Take(find(coll, "page_id", page_id), limit)

\* s[skip:]
Drop(s, skip) == SubSeq(s, skip + 1, Len(s))

\* get_employees_by_page(page_id, page, page_size): count_documents, then
\* find(query).skip(skip).limit(page_size).
get_employees_by_page(coll, page_id, page, page_size) ==
    [items |-> Take(Drop(find(coll, "page_id", page_id), (page - 1) * page_size),
                    page_size),
     total |-> count_documents(coll, "page_id", page_id)]

\* create_comments without its delete_many: the comments the post had stay
\* (CommentsAreReplaced tells the two apart).
create_comments_KeepsOld(coll, post_id, list) ==
    IF Len(list) = 0 THEN [coll |-> coll, ret |-> 0]
    ELSE [coll |-> insert_many(coll,
                       [i \in 1..Len(list) |->
                           SetFields(list[i], ("post_id" :> post_id))]),
          ret |-> Len(list)]

\* create_comments(post_id, comments): every comment gets the post_id, the
\* comments of the post are deleted, the list is inserted.
create_comments(coll, post_id, list) ==
    IF Len(list) = 0 THEN [coll |-> coll, ret |-> 0]
    ELSE [coll |-> insert_many(delete_many(coll, "post_id", post_id),
                       [i \in 1..Len(list) |->
                           SetFields(list[i], ("post_id" :> post_id))]),
          ret |-> Len(list)]

\* get_page_stats(page_id)
get_page_stats(postsColl, employeesColl, page_id) ==
    [total_posts |-> count_documents(postsColl, "page_id", page_id),
     total_employees |-> count_documents(employeesColl, "page_id", page_id)]

\* total_pages by floor division.
total_pages_of_Floor(total, page_size) ==
    IF total > 0 THEN total \div page_size ELSE 0

\* math.ceil(total / page_size) if total > 0 else 0
total_pages_of(total, page_size) ==
    IF total > 0 THEN (total + page_size - 1) \div page_size ELSE 0

\* ------------------------------------------------------------------- state
\* The worker threads of the server; each serves one request at a time.
Threads == {"t1", "t2"}

VARIABLES
    pages,             \* db.pages
    posts,             \* db.posts
    employees,         \* db.employees
    comments,          \* db.comments
    now,               \* readings of datetime.utcnow() taken so far
    scraper_instance,  \* routes.py global: 0 is None, else an index of scrapers
    scrapers,          \* the LinkedInScraperService objects constructed so far
    pc,                \* per thread: the place of its request in the handler
    req,               \* per thread: the request (handler and parameters)
    loc,               \* per thread: the local variables of the handler
    resp,              \* per thread: the response (status 0: none yet)
    served,            \* requests taken so far
    snapshot,          \* the collections as the request served alone found them
    last,              \* the request served alone before this one, and its status
    call               \* the last direct call of a DatabaseService method

storeVars == <<pages, posts, employees, comments, now>>
sessVars == <<scraper_instance, scrapers>>
threadVars == <<pc, req, loc, resp>>
ghostVars == <<served, snapshot, last, call>>
vars == <<pages, posts, employees, comments, now, scraper_instance, scrapers,
          pc, req, loc, resp, served, snapshot, last, call>>

\* before: the collection the call found.
NoCall == [op |-> "none", arg |-> <<>>, ret |-> 0, before |-> <<>>]

NoRequest == [op |-> "none"]
NoResponse == [status |-> 0, body |-> <<>>]
NoLast == [op |-> "none", page_id |-> "", status |-> 0, scraped |-> <<>>]

\* The locals of a handler before it assigns them.
NoLocals ==
    [page |-> NoDoc, scraper |-> 0, company_data |-> NoDoc, existing |-> NoDoc,
     posts_data |-> <<>>, idx |-> 0, inserted_count |-> 0, posts_count |-> 0,
     employees_data |-> <<>>, employees_count |-> 0,
     result_posts |-> <<>>, result_employees |-> <<>>, calls |-> {}]

\* The database outlives the server process.  A process starts on an empty
\* database, or on one an earlier process left after ingesting both
\* companies (scraped_at before the start of this process).
SeedView(c) == [name |-> SiteName(c), followers |-> 10, tail |-> "industry"]

SeedElement(c) == [href |-> SitePermalink(c), text |-> "hello"]

SeedPages ==
    create_page(create_page(<<>>, scrape_company_page("a", SeedView("a")), -2).coll,
                scrape_company_page("b", SeedView("b")), -1).coll

SeedPosts ==
    create_posts(
        create_posts(<<>>, scrape_company_posts("a", max_posts, <<SeedElement("a")>>)).coll,
        scrape_company_posts("b", max_posts, <<SeedElement("b")>>)).coll

SeedEmployees ==
    create_employees(
        create_employees(<<>>, scrape_company_employees("a", max_employees, <<"Ann">>)).coll,
        scrape_company_employees("b", max_employees, <<"Ann">>)).coll

Databases == {<<<<>>, <<>>, <<>>>>, <<SeedPages, SeedPosts, SeedEmployees>>}

Init ==
    /\ \E db \in Databases : pages = db[1] /\ posts = db[2] /\ employees = db[3]
    /\ comments = <<>>
    /\ now = 0
    /\ scraper_instance = 0
    /\ scrapers = <<>>
    /\ pc = [t \in Threads |-> "idle"]
    /\ req = [t \in Threads |-> NoRequest]
    /\ loc = [t \in Threads |-> NoLocals]
    /\ resp = [t \in Threads |-> NoResponse]
    /\ served = 0
    /\ snapshot = <<<<>>, <<>>, <<>>>>
    /\ last = NoLast
    /\ call = NoCall

\* ------------------------------------------- direct DatabaseService calls
\* The dicts routes.py passes to create_page: results of scrape_company_page
\* whose name is truthy.
PageDatas ==
    UNION {{scrape_company_page(c, v) :
                v \in {w \in CompanyViews(c) : ~Falsy(w.name)}} : c \in PageIds}

StoreCreatePage(page_data) ==
    /\ now < MaxClock
    /\ pages' = create_page(pages, page_data, now).coll
    /\ now' = now + 1
    /\ call' = [op |-> "create_page", arg |-> page_data,
                ret |-> create_page(pages, page_data, now).ret, before |-> pages]
    /\ UNCHANGED <<posts, employees, comments, sessVars, threadVars, served, snapshot, last>>

NextPages == \E d \in PageDatas : StoreCreatePage(d)

SpecPages == Init /\ [][NextPages]_vars

\* The lists routes.py passes to create_posts: results of
\* scrape_company_posts.  create_posts never reads page_id, so the posts of
\* one company are enough; two elements with the same permalink give a
\* list that repeats a linkedin_post_id.
PostBatches ==
    {scrape_company_posts("a", max_posts, elems) :
        elems \in SeqUpTo(PostElements("a"), MaxBatch)}

StoreCreatePosts(list) ==
    /\ posts' = create_posts(posts, list).coll
    /\ call' = [op |-> "create_posts", arg |-> list,
                ret |-> create_posts(posts, list).ret, before |-> posts]
    /\ UNCHANGED <<pages, employees, comments, now, sessVars, threadVars, served, snapshot, last>>

NextPosts == \E list \in PostBatches : StoreCreatePosts(list)

SpecPosts == Init /\ [][NextPosts]_vars

\* A record that makes the turn of the loop of create_posts fail: a post
\* without linkedin_post_id (post["linkedin_post_id"] raises KeyError).
WithoutId(post) == [k \in DOMAIN post \ {"linkedin_post_id"} |-> post[k]]

\* Lists for create_posts in which any record can be such a one; the posts
\* are those of scrape_company_posts with one text.
MixedBatches ==
    LET elems == {e \in PostElements("a") : e.text = "hello"}
        scraped(es) == scrape_company_posts("a", max_posts, es)
    IN  UNION {{[i \in 1..Len(es) |->
                    IF i \in bad THEN WithoutId(scraped(es)[i]) ELSE scraped(es)[i]] :
                bad \in SUBSET (1..Len(es))} : es \in SeqUpTo(elems, MaxMixed)}

\* create_posts called with well-formed and malformed lists.
NextBatch == \E list \in MixedBatches : StoreCreatePosts(list)

SpecBatch == Init /\ [][NextBatch]_vars

\* The lists of scrape_company_employees: every record carries the
\* company_id of the call as page_id.
EmployeeBatches ==
    {scrape_company_employees(c, max_employees, elems) :
        c \in PageIds, elems \in SeqUpTo(EmployeeElements, MaxBatch)}

StoreCreateEmployees(list) ==
    /\ employees' = create_employees(employees, list).coll
    /\ call' = [op |-> "create_employees", arg |-> list,
                ret |-> create_employees(employees, list).ret, before |-> employees]
    /\ UNCHANGED <<pages, posts, comments, now, sessVars, threadVars, served, snapshot, last>>

NextEmployees == \E list \in EmployeeBatches : StoreCreateEmployees(list)

SpecEmployees == Init /\ [][NextEmployees]_vars

\* -------------------------------------- direct LinkedInScraperService calls
\* __init__, lines 18-22.
new_scraper == [is_logged_in |-> FALSE, driver |-> NoDoc]

\* The driver after driver.quit().
Closed == <<"quit">>

\* The outcomes login() can have on scraper s: a browser that was quit
\* raises on driver.get.
LoginOutcomes(s) ==
    IF s.driver = Closed THEN {"error"} ELSE {"ok", "fail", "error"}

\* login() without the early return of lines 41-42: it drives the browser
\* to the login page again.
login_AlwaysDrives(s, outcome) ==
    CASE outcome = "ok" ->
            [scraper |-> [is_logged_in |-> TRUE, driver |-> FeedUrl],
             ret |-> TRUE, raised |-> FALSE]
      [] outcome = "fail" ->
            [scraper |-> [s EXCEPT !.driver = LoginUrl],
             ret |-> FALSE, raised |-> FALSE]
      [] outcome = "error" ->
            [scraper |-> s, ret |-> FALSE, raised |-> TRUE]

\* login(), lines 39-74.  ret: the value returned; raised: _setup_driver or
\* driver.get raised.
login(s, outcome) ==
    IF s.is_logged_in
    THEN [scraper |-> s, ret |-> TRUE, raised |-> FALSE]
    ELSE CASE outcome = "ok" ->
                [scraper |-> [is_logged_in |-> TRUE, driver |-> FeedUrl],
                 ret |-> TRUE, raised |-> FALSE]
           [] outcome = "fail" ->
                [scraper |-> [s EXCEPT !.driver = LoginUrl],
                 ret |-> FALSE, raised |-> FALSE]
           [] outcome = "error" ->
                [scraper |-> s, ret |-> FALSE, raised |-> TRUE]

\* self.driver.get(url) of a scrape method (lines 81, 170, 238): without a
\* live driver, or when ok is false, the call raises.
driver_get(s, url, ok) ==
    IF ok /\ s.driver \notin {NoDoc, Closed}
    THEN [scraper |-> [s EXCEPT !.driver = url], raised |-> FALSE]
    ELSE [scraper |-> s, raised |-> TRUE]

\* close(), lines 350-355.
close(s) ==
    IF s.driver # NoDoc
    THEN [is_logged_in |-> FALSE, driver |-> Closed]
    ELSE s

ScrapeUrls ==
    UNION {{<<"scrape_company_page", CompanyUrl(c)>>,
            <<"scrape_company_posts", PostsUrl(c)>>,
            <<"scrape_company_employees", PeopleUrl(c)>>} : c \in PageIds}

SessionRest == <<storeVars, scraper_instance, threadVars, served, snapshot, last>>

SessionNew ==
    /\ scrapers = <<>>
    /\ scrapers' = <<new_scraper>>
    /\ call' = [op |-> "__init__", arg |-> <<>>, ret |-> 0, before |-> <<>>]
    /\ UNCHANGED SessionRest

SessionLogin(outcome) ==
    /\ scrapers # <<>>
    /\ outcome \in LoginOutcomes(scrapers[1])
    /\ scrapers' = <<login(scrapers[1], outcome).scraper>>
    /\ call' = [op |-> "login", arg |-> outcome,
                ret |-> login(scrapers[1], outcome).ret, before |-> scrapers[1]]
    /\ UNCHANGED SessionRest

SessionScrape(method, url, ok) ==
    /\ scrapers # <<>>
    /\ scrapers' = <<driver_get(scrapers[1], url, ok).scraper>>
    /\ call' = [op |-> method, arg |-> url,
                ret |-> driver_get(scrapers[1], url, ok).raised,
                before |-> scrapers[1]]
    /\ UNCHANGED SessionRest

SessionClose ==
    /\ scrapers # <<>>
    /\ scrapers' = <<close(scrapers[1])>>
    /\ call' = [op |-> "close", arg |-> <<>>, ret |-> 0, before |-> scrapers[1]]
    /\ UNCHANGED SessionRest

NextSession ==
    \/ SessionNew
    \/ \E outcome \in {"ok", "fail", "error"} : SessionLogin(outcome)
    \/ \E m \in ScrapeUrls, ok \in BOOLEAN : SessionScrape(m[1], m[2], ok)
    \/ SessionClose

SpecSession == Init /\ [][NextSession]_vars

\* ------------------------------------------------------------- api/routes
\* The requests the handler specifications serve.
GetPageDetails(page_id, include_posts, include_employees, force_scrape) ==
    [op |-> "get_page_details", page_id |-> page_id,
     include_posts |-> include_posts, include_employees |-> include_employees,
     force_scrape |-> force_scrape]

ScrapePageNow(page_id, scrape_posts, scrape_employees) ==
    [op |-> "scrape_page_now", page_id |-> page_id,
     scrape_posts |-> scrape_posts, scrape_employees |-> scrape_employees]

GetPagePosts(page_id) ==
    [op |-> "get_page_posts", page_id |-> page_id, limit |-> default_limit]

GetPageEmployees(page_id) ==
    [op |-> "get_page_employees", page_id |-> page_id, page |-> 1,
     page_size |-> default_page_size]

DeletePage(page_id) == [op |-> "delete_page", page_id |-> page_id]

\* Every request, with every value of its flags.
AllRequests ==
    UNION {{GetPageDetails(p, ip, ie, f) : ip \in BOOLEAN, ie \in BOOLEAN, f \in BOOLEAN}
           \cup {ScrapePageNow(p, sp, se) : sp \in BOOLEAN, se \in BOOLEAN}
           \cup {GetPagePosts(p), GetPageEmployees(p), DeletePage(p)} : p \in PageIds}

\* The requests of the concurrent specification: the default values of
\* the flags; manual scrapes of both companies, the other requests for
\* one of them.
DefaultRequests ==
    {ScrapePageNow(p, TRUE, TRUE) : p \in PageIds}
    \cup {GetPageDetails("a", TRUE, TRUE, FALSE), GetPagePosts("a"),
          GetPageEmployees("a"), DeletePage("a")}

IsIngestion(request) == request.op \in {"get_page_details", "scrape_page_now"}

\* The places of an ingestion before create_page reads the clock.
BeforeStamp ==
    {"gpd_lookup", "get_scraper", "new_scraper", "login_check", "login",
     "nav_company", "read_company", "cp_find"}

FirstPc(request) ==
    CASE request.op = "get_page_details" -> "gpd_lookup"
      [] request.op = "scrape_page_now" -> "get_scraper"
      [] request.op = "get_page_posts" -> "gpp_lookup"
      [] request.op = "get_page_employees" -> "gpe_lookup"
      [] request.op = "delete_page" -> "del_lookup"
      [] request.op = "search_pages" -> "search"

Goto(t, p) == pc' = [pc EXCEPT ![t] = p]

\* The handler returns, or raises an HTTPException outside a try.
Respond(t, status, body) ==
    /\ pc' = [pc EXCEPT ![t] = "done"]
    /\ resp' = [resp EXCEPT ![t] = [status |-> status, body |-> body]]

\* raise HTTPException(status_code, detail)
HTTPException(status_code, detail) == [status_code |-> status_code, detail |-> detail]

\* An exception of the browser or of the database, by the name of its class.
Exception(name) == [class |-> name]

\* except Exception as e: raise HTTPException(500, f"Scraping error: {str(e)}")
\* HTTPException derives from Exception: one raised inside the try is
\* caught here as well.
except_Exception(e) == HTTPException(500, <<"Scraping error: ", e>>)

\* An exception e raised inside the try block of get_page_details or
\* scrape_page_now.
RaisedInTry(t, e) ==
    Respond(t, except_Exception(e).status_code, except_Exception(e).detail)

\* The company whose page the browser shows, "" on any other page.
Shown(url) == IF Len(url) = 3 THEN url[2] ELSE ""

\* A thread takes a request.  An ingestion is taken while the clock leaves a
\* reading for it.
Start(t, request) ==
    /\ pc[t] = "idle"
    /\ served < MaxRequests
    /\ served' = served + 1
    /\ IsIngestion(request) =>
           now + Cardinality({u \in Threads : pc[u] \in BeforeStamp}) < MaxClock
    /\ pc' = [pc EXCEPT ![t] = FirstPc(request)]
    /\ req' = [req EXCEPT ![t] = request]
    /\ loc' = [loc EXCEPT ![t] = NoLocals]
    /\ resp' = [resp EXCEPT ![t] = NoResponse]
    /\ UNCHANGED <<storeVars, sessVars, last, call>>

\* The response is sent; the thread is free again.
Finish(t) ==
    /\ pc[t] = "done"
    /\ pc' = [pc EXCEPT ![t] = "idle"]
    /\ req' = [req EXCEPT ![t] = NoRequest]
    /\ loc' = [loc EXCEPT ![t] = NoLocals]
    /\ resp' = [resp EXCEPT ![t] = NoResponse]
    /\ UNCHANGED <<storeVars, sessVars, served, snapshot, call>>

\* get_page_details that scrapes whatever the lookup finds.
GpdLookup_AlwaysScrapes(t) ==
    /\ pc[t] = "gpd_lookup"
    /\ loc' = [loc EXCEPT ![t].page = get_page_by_id(pages, req[t].page_id)]
    /\ Goto(t, "get_scraper")
    /\ UNCHANGED <<storeVars, sessVars, req, resp, ghostVars>>

\* get_page_details, lines 54-56.
GpdLookup(t) ==
    /\ pc[t] = "gpd_lookup"
    /\ LET page == get_page_by_id(pages, req[t].page_id)
       IN  /\ loc' = [loc EXCEPT ![t].page = page]
           /\ IF page = NoDoc \/ req[t].force_scrape
              THEN Goto(t, "get_scraper")
              ELSE Goto(t, "asm_posts")
    /\ UNCHANGED <<storeVars, sessVars, req, resp, ghostVars>>

\* get_scraper, line 34: the test of the global.
GetScraper(t) ==
    /\ pc[t] = "get_scraper"
    /\ IF scraper_instance = 0
       THEN Goto(t, "new_scraper") /\ UNCHANGED loc
       ELSE Goto(t, "login_check")
            /\ loc' = [loc EXCEPT ![t].scraper = scraper_instance]
    /\ UNCHANGED <<storeVars, sessVars, req, resp, ghostVars>>

\* get_scraper, lines 35-36: construct the service, assign the global.
NewScraper(t) ==
    /\ pc[t] = "new_scraper"
    /\ scrapers' = Append(scrapers, new_scraper)
    /\ scraper_instance' = Len(scrapers) + 1
    /\ loc' = [loc EXCEPT ![t].scraper = Len(scrapers) + 1]
    /\ Goto(t, "login_check")
    /\ UNCHANGED <<storeVars, req, resp, ghostVars>>

\* The handlers without the login: straight to scrape_company_page.
LoginCheck_Skipped(t) ==
    /\ pc[t] = "login_check"
    /\ Goto(t, "nav_company")
    /\ UNCHANGED <<storeVars, sessVars, req, loc, resp, ghostVars>>

\* Lines 64 / 215: if not scraper.is_logged_in.
LoginCheck(t) ==
    /\ pc[t] = "login_check"
    /\ IF scrapers[loc[t].scraper].is_logged_in
       THEN Goto(t, "nav_company")
       ELSE Goto(t, "login")
    /\ UNCHANGED <<storeVars, sessVars, req, loc, resp, ghostVars>>

\* A handler that tries the login again for as long as it fails.
Login_Retries(t, outcome) ==
    /\ pc[t] = "login"
    /\ loc' = [loc EXCEPT ![t].calls = @ \cup {"login"}]
    /\ LET i == loc[t].scraper
           r == login(scrapers[i], outcome)
       IN  /\ scrapers' = [scrapers EXCEPT ![i] = r.scraper]
           /\ IF r.raised
              THEN RaisedInTry(t, Exception("WebDriverException"))
              ELSE IF r.ret
              THEN Goto(t, "nav_company") /\ UNCHANGED resp
              ELSE Goto(t, "login_check") /\ UNCHANGED resp
    /\ UNCHANGED <<storeVars, scraper_instance, req, ghostVars>>

\* scraper.login() and lines 65-66 / 216-217.  outcome: "ok" the browser
\* lands on the feed, "fail" it does not (login returns False), "error"
\* _setup_driver or driver.get raises.
Login(t, outcome) ==
    /\ pc[t] = "login"
    /\ loc' = [loc EXCEPT ![t].calls = @ \cup {"login"}]
    /\ LET i == loc[t].scraper
           r == login(scrapers[i], outcome)
       IN  /\ scrapers' = [scrapers EXCEPT ![i] = r.scraper]
           /\ IF r.raised
              THEN RaisedInTry(t, Exception("WebDriverException"))
              ELSE IF r.ret
              THEN Goto(t, "nav_company") /\ UNCHANGED resp
              ELSE RaisedInTry(t, HTTPException(500, "Failed to login to LinkedIn"))
    /\ UNCHANGED <<storeVars, scraper_instance, req, ghostVars>>

\* A scrape whose failure puts the collections back as the request found
\* them.
Navigate_RollsBack(t, from, to, what, url, ok) ==
    /\ pc[t] = from
    /\ loc' = [loc EXCEPT ![t].calls = @ \cup {what}]
    /\ IF ok
       THEN /\ scrapers' = [scrapers EXCEPT ![loc[t].scraper].driver = url]
            /\ Goto(t, to)
            /\ UNCHANGED <<resp, pages, posts, employees, comments>>
       ELSE /\ UNCHANGED scrapers
            /\ RaisedInTry(t, Exception("WebDriverException"))
            /\ pages' = snapshot[1]
            /\ posts' = snapshot[2]
            /\ employees' = snapshot[3]
    /\ UNCHANGED <<comments, now, scraper_instance, req, ghostVars>>

\* driver.get(url) of a scrape method: the shared browser goes to url, or
\* the call raises.
Navigate(t, from, to, what, url, ok) ==
    /\ pc[t] = from
    /\ loc' = [loc EXCEPT ![t].calls = @ \cup {what}]
    /\ IF ok
       THEN /\ scrapers' = [scrapers EXCEPT ![loc[t].scraper].driver = url]
            /\ Goto(t, to)
            /\ UNCHANGED resp
       ELSE /\ UNCHANGED scrapers
            /\ RaisedInTry(t, Exception("WebDriverException"))
    /\ UNCHANGED <<storeVars, scraper_instance, req, ghostVars>>

\* scrape_company_page, line 81.
NavCompany(t, ok) ==
    Navigate(t, "nav_company", "read_company", "company",
             CompanyUrl(req[t].page_id), ok)

\* The views scrape_company_page can read from the page the browser shows.
ViewsAt(url) ==
    IF Shown(url) \in PageIds THEN CompanyViewsSeq(Shown(url))
    ELSE {[name |-> None, followers |-> 0, tail |-> "no_industry"]}

\* The rest of the request after the posts part: the employees part when
\* asked for, else the end of the ingestion.
AfterEmployees(t) ==
    IF req[t].op = "scrape_page_now" THEN "return" ELSE "asm_posts"

\* The handlers scraping posts whatever scrape_posts says.
WantsPosts_Always(t) == TRUE

WantsPosts(t) == req[t].op = "get_page_details" \/ req[t].scrape_posts

WantsEmployees(t) == req[t].op = "get_page_details" \/ req[t].scrape_employees

AfterPosts(t) == IF WantsEmployees(t) THEN "nav_people" ELSE AfterEmployees(t)

AfterPage(t) == IF WantsPosts(t) THEN "nav_posts" ELSE AfterPosts(t)

\* scrape_page_now, lines 243-249.
Summary(t, l) ==
    [message |-> "Scraping completed successfully", page_id |-> req[t].page_id,
     page_name |-> get(l.company_data, "name"),
     posts_scraped |-> l.posts_count, employees_scraped |-> l.employees_count]

\* The thread goes on to place p with locals l; "return" is the return of
\* scrape_page_now.
Continue(t, p, l) ==
    /\ loc' = [loc EXCEPT ![t] = l]
    /\ IF p = "return"
       THEN Respond(t, 200, Summary(t, l))
       ELSE Goto(t, p) /\ UNCHANGED resp

\* ReadCompany without the test of the name (lines 71-72 / 222-223).
ReadCompany_NameUnchecked(t, view) ==
    /\ pc[t] = "read_company"
    /\ view \in ViewsAt(scrapers[loc[t].scraper].driver)
    /\ loc' = [loc EXCEPT ![t].company_data =
                   scrape_company_page(req[t].page_id, view)]
    /\ Goto(t, "cp_find")
    /\ UNCHANGED <<storeVars, sessVars, req, resp, ghostVars>>

\* scrape_company_page on a browser of the request's own: it reads the page
\* it went to.
ReadCompany_OwnBrowser(t, view) ==
    /\ pc[t] = "read_company"
    /\ view \in ViewsAt(CompanyUrl(req[t].page_id))
    /\ LET company_data == scrape_company_page(req[t].page_id, view)
       IN  /\ loc' = [loc EXCEPT ![t].company_data = company_data]
           /\ IF Falsy(get(company_data, "name"))
              THEN RaisedInTry(t, HTTPException(404, "Page not found on LinkedIn"))
              ELSE Goto(t, "cp_find") /\ UNCHANGED resp
    /\ UNCHANGED <<storeVars, sessVars, req, ghostVars>>

\* scrape_company_page, lines 84-163, and lines 71-72 / 222-223.
ReadCompany(t, view) ==
    /\ pc[t] = "read_company"
    /\ view \in ViewsAt(scrapers[loc[t].scraper].driver)
    /\ LET company_data == scrape_company_page(req[t].page_id, view)
       IN  /\ loc' = [loc EXCEPT ![t].company_data = company_data]
           /\ IF Falsy(get(company_data, "name"))
              THEN RaisedInTry(t, HTTPException(404, "Page not found on LinkedIn"))
              ELSE Goto(t, "cp_find") /\ UNCHANGED resp
    /\ UNCHANGED <<storeVars, sessVars, req, ghostVars>>

\* create_page, lines 26-29.
CreatePageFind(t) ==
    /\ pc[t] = "cp_find"
    /\ loc' = [loc EXCEPT
           ![t].company_data = stamp(@, now),
           ![t].existing = find_one(pages, "page_id", loc[t].company_data["page_id"])]
    /\ now' = now + 1
    /\ Goto(t, "cp_write")
    /\ UNCHANGED <<pages, posts, employees, comments, sessVars, req, resp, ghostVars>>

\* create_page, lines 31-43, and lines 75 / 226.
CreatePageWrite(t) ==
    /\ pc[t] = "cp_write"
    /\ LET w == create_page_write(pages, loc[t].existing, loc[t].company_data)
       IN  IF w.raised
           THEN /\ RaisedInTry(t, Exception("DuplicateKeyError"))
                /\ UNCHANGED <<pages, loc>>
           ELSE /\ pages' = w.coll
                /\ Continue(t, AfterPage(t),
                            [loc[t] EXCEPT !.page = loc[t].company_data])
    /\ UNCHANGED <<posts, employees, comments, now, sessVars, req, ghostVars>>

\* scrape_company_posts, line 170.
NavPosts(t, ok) ==
    Navigate(t, "nav_posts", "read_posts", "posts", PostsUrl(req[t].page_id), ok)

\* The lists of post elements the browser can show to scrape_company_posts.
PostElementsAt(url) ==
    IF Shown(url) \in PageIds /\ url = PostsUrl(Shown(url))
    THEN SeqUpTo(PostElements(Shown(url)), MaxPosts)
    ELSE {<<>>}

\* scrape_company_posts, lines 173-231, and lines 79 / 234.
ReadPosts(t, elems) ==
    /\ pc[t] = "read_posts"
    /\ elems \in PostElementsAt(scrapers[loc[t].scraper].driver)
    /\ LET posts_data == scrape_company_posts(req[t].page_id, max_posts, elems)
       IN  IF Len(posts_data) > 0
           THEN Continue(t, "posts_find",
                    [loc[t] EXCEPT !.posts_data = posts_data, !.idx = 1,
                                   !.inserted_count = 0])
           ELSE Continue(t, AfterPosts(t), [loc[t] EXCEPT !.posts_data = posts_data])
    /\ UNCHANGED <<storeVars, sessVars, req, ghostVars>>

\* The end of one turn of the loop of create_posts; after the last turn
\* scrape_page_now keeps the returned count (line 235).
NextPost(t, l) ==
    IF l.idx < Len(l.posts_data)
    THEN Continue(t, "posts_find", [l EXCEPT !.idx = @ + 1])
    ELSE Continue(t, AfterPosts(t),
             IF req[t].op = "scrape_page_now"
             THEN [l EXCEPT !.posts_count = l.inserted_count]
             ELSE l)

\* create_posts, lines 90-93: find_one of the post at idx.
PostsFind(t) ==
    /\ pc[t] = "posts_find"
    /\ LET post == loc[t].posts_data[loc[t].idx]
       IN  IF "linkedin_post_id" \notin DOMAIN post
           THEN NextPost(t, loc[t])
           ELSE Continue(t, "posts_write",
                    [loc[t] EXCEPT !.existing =
                        find_one(posts, "linkedin_post_id", post["linkedin_post_id"])])
    /\ UNCHANGED <<storeVars, sessVars, req, ghostVars>>

\* create_posts, lines 95-107: update_one or insert_one of the post at idx.
PostsWrite(t) ==
    /\ pc[t] = "posts_write"
    /\ LET w == create_posts_write(posts, loc[t].existing,
                                   loc[t].posts_data[loc[t].idx])
       IN  /\ posts' = w.coll
           /\ NextPost(t, [loc[t] EXCEPT !.inserted_count = @ + w.inserted])
    /\ UNCHANGED <<pages, employees, comments, now, sessVars, req, ghostVars>>

\* scrape_company_employees, line 238.
NavPeople(t, ok) ==
    Navigate(t, "nav_people", "read_people", "employees",
             PeopleUrl(req[t].page_id), ok)

\* The lists of profile cards the browser can show to
\* scrape_company_employees.
EmployeeElementsAt(url) ==
    IF Shown(url) \in PageIds /\ url = PeopleUrl(Shown(url))
    THEN SeqUpTo(EmployeeElements, MaxEmployees)
    ELSE {<<>>}

\* scrape_company_employees, lines 241-290, and lines 84 / 240.
ReadPeople(t, elems) ==
    /\ pc[t] = "read_people"
    /\ elems \in EmployeeElementsAt(scrapers[loc[t].scraper].driver)
    /\ LET employees_data ==
               scrape_company_employees(req[t].page_id, max_employees, elems)
       IN  IF Len(employees_data) > 0
           THEN Continue(t, "emp_delete",
                    [loc[t] EXCEPT !.employees_data = employees_data])
           ELSE Continue(t, AfterEmployees(t),
                    [loc[t] EXCEPT !.employees_data = employees_data])
    /\ UNCHANGED <<storeVars, sessVars, req, ghostVars>>

\* The handler's create_employees without the delete_many.
EmployeesDelete_Skipped(t) ==
    /\ pc[t] = "emp_delete"
    /\ Goto(t, "emp_insert")
    /\ UNCHANGED <<storeVars, sessVars, req, loc, resp, ghostVars>>

\* A delete_many that puts the new employees in place of the old ones in
\* the same store operation.
EmployeesDelete_Swaps(t) ==
    /\ pc[t] = "emp_delete"
    /\ employees' = insert_many(
           create_employees_delete(employees, loc[t].employees_data),
           loc[t].employees_data)
    /\ Goto(t, "emp_insert")
    /\ UNCHANGED <<pages, posts, comments, now, sessVars, req, loc, resp, ghostVars>>

\* create_employees, lines 127-129: delete_many.
EmployeesDelete(t) ==
    /\ pc[t] = "emp_delete"
    /\ employees' = create_employees_delete(employees, loc[t].employees_data)
    /\ Goto(t, "emp_insert")
    /\ UNCHANGED <<pages, posts, comments, now, sessVars, req, loc, resp, ghostVars>>

\* create_employees, lines 132-133: insert_many; scrape_page_now keeps the
\* returned count (line 241).
EmployeesInsert(t) ==
    /\ pc[t] = "emp_insert"
    /\ employees' = insert_many(employees, loc[t].employees_data)
    /\ Continue(t, AfterEmployees(t),
           IF req[t].op = "scrape_page_now"
           THEN [loc[t] EXCEPT !.employees_count = Len(loc[t].employees_data)]
           ELSE loc[t])
    /\ UNCHANGED <<pages, posts, comments, now, sessVars, req, ghostVars>>

\* get_page_details, lines 93-97.
AssemblePosts(t) ==
    /\ pc[t] = "asm_posts"
    /\ loc' = [loc EXCEPT ![t].result_posts =
           IF req[t].include_posts
           THEN get_posts_by_page(posts, req[t].page_id, detail_posts_limit)
           ELSE <<>>]
    /\ Goto(t, "asm_employees")
    /\ UNCHANGED <<storeVars, sessVars, req, resp, ghostVars>>

\* get_page_details, lines 99-103.
AssembleEmployees(t) ==
    /\ pc[t] = "asm_employees"
    /\ loc' = [loc EXCEPT ![t].result_employees =
           IF req[t].include_employees
           THEN get_employees_by_page(employees, req[t].page_id, 1,
                                      detail_employees_page_size).items
           ELSE <<>>]
    /\ Goto(t, "asm_stats")
    /\ UNCHANGED <<storeVars, sessVars, req, resp, ghostVars>>

\* get_page_details that counts what it returns.
AssembleStats_CountsReturned(t) ==
    /\ pc[t] = "asm_stats"
    /\ Respond(t, 200,
           [page |-> loc[t].page, posts |-> loc[t].result_posts,
            employees |-> loc[t].result_employees,
            total_posts |-> Len(loc[t].result_posts),
            total_employees |-> Len(loc[t].result_employees)])
    /\ UNCHANGED <<storeVars, sessVars, req, loc, ghostVars>>

\* get_page_details, lines 106-110.
AssembleStats(t) ==
    /\ pc[t] = "asm_stats"
    /\ LET stats == get_page_stats(posts, employees, req[t].page_id)
       IN  Respond(t, 200,
               [page |-> loc[t].page, posts |-> loc[t].result_posts,
                employees |-> loc[t].result_employees,
                total_posts |-> stats.total_posts,
                total_employees |-> stats.total_employees])
    /\ UNCHANGED <<storeVars, sessVars, req, loc, ghostVars>>

\* The existence check that lets every request pass.
Lookup_LetsPass(t, from, to) ==
    /\ pc[t] = from
    /\ loc' = [loc EXCEPT ![t].page = get_page_by_id(pages, req[t].page_id)]
    /\ Goto(t, to)
    /\ UNCHANGED <<storeVars, sessVars, req, resp, ghostVars>>

\* The existence check of get_page_posts (162-164), get_page_employees
\* (181-183) and delete_page (264-266).
Lookup(t, from, to) ==
    /\ pc[t] = from
    /\ LET page == get_page_by_id(pages, req[t].page_id)
       IN  /\ loc' = [loc EXCEPT ![t].page = page]
           /\ IF page = NoDoc
              THEN Respond(t, 404, "Page not found in database")
              ELSE Goto(t, to) /\ UNCHANGED resp
    /\ UNCHANGED <<storeVars, sessVars, req, ghostVars>>

GppLookup(t) == Lookup(t, "gpp_lookup", "gpp_read")

\* get_page_posts, lines 166-167.
GppRead(t) ==
    /\ pc[t] = "gpp_read"
    /\ Respond(t, 200, get_posts_by_page(posts, req[t].page_id, req[t].limit))
    /\ UNCHANGED <<storeVars, sessVars, req, loc, ghostVars>>

GpeLookup(t) == Lookup(t, "gpe_lookup", "gpe_read")

\* get_page_employees, lines 185-195.
GpeRead(t) ==
    /\ pc[t] = "gpe_read"
    /\ LET got == get_employees_by_page(employees, req[t].page_id, req[t].page,
                                        req[t].page_size)
       IN  Respond(t, 200,
               [items |-> got.items, total |-> got.total, page |-> req[t].page,
                page_size |-> req[t].page_size,
                total_pages |-> total_pages_of(got.total, req[t].page_size)])
    /\ UNCHANGED <<storeVars, sessVars, req, loc, ghostVars>>

DelLookup(t) == Lookup(t, "del_lookup", "del_page")

\* delete_page, line 269.
DelPage(t) ==
    /\ pc[t] = "del_page"
    /\ pages' = delete_one(pages, "page_id", req[t].page_id)
    /\ Goto(t, "del_posts")
    /\ UNCHANGED <<posts, employees, comments, now, sessVars, req, loc, resp, ghostVars>>

\* delete_page without the delete_many of the posts.
DelPosts_Skipped(t) ==
    /\ pc[t] = "del_posts"
    /\ Goto(t, "del_employees")
    /\ UNCHANGED <<storeVars, sessVars, req, loc, resp, ghostVars>>

\* delete_page, line 272.
DelPosts(t) ==
    /\ pc[t] = "del_posts"
    /\ posts' = delete_many(posts, "page_id", req[t].page_id)
    /\ Goto(t, "del_employees")
    /\ UNCHANGED <<pages, employees, comments, now, sessVars, req, loc, resp, ghostVars>>

\* delete_page, lines 273-277.
DelEmployees(t) ==
    /\ pc[t] = "del_employees"
    /\ employees' = delete_many(employees, "page_id", req[t].page_id)
    /\ Respond(t, 200, "Page and all related data deleted successfully")
    /\ UNCHANGED <<pages, posts, comments, now, sessVars, req, loc, ghostVars>>

\* What the site and the browser may answer to the calls of one step: the
\* outcomes of login and of driver.get, and the views, post elements and
\* profile cards a company's pages show.
EnvSeq ==
    [login |-> {"ok", "fail", "error"},
     nav |-> BOOLEAN,
     views |-> UNION {CompanyViewsSeq(c) : c \in PageIds} \cup ViewsAt(LoginUrl),
     post_elems |-> UNION {PostElementsAt(PostsUrl(c)) : c \in PageIds},
     employee_elems |-> EmployeeElementsAt(PeopleUrl("a"))]

\* For the concurrent specification: one text per post, one name per card,
\* and a missing name only as None.
EnvConc ==
    [login |-> {"ok", "fail", "error"},
     nav |-> BOOLEAN,
     views |-> {v \in EnvSeq.views : v.name # ""},
     post_elems |-> {e \in EnvSeq.post_elems :
                        \A i \in 1..Len(e) : e[i].text = "hello" /\ e[i].href # NoDoc},
     employee_elems |-> {e \in EnvSeq.employee_elems :
                            \A i \in 1..Len(e) : e[i] = "Ann"}]

\* One step of the request thread t serves.
Step(t, env) ==
    \/ GpdLookup(t)
    \/ GetScraper(t)
    \/ NewScraper(t)
    \/ LoginCheck(t)
    \/ \E outcome \in env.login : Login(t, outcome)
    \/ \E ok \in env.nav : NavCompany(t, ok)
    \/ \E view \in env.views : ReadCompany(t, view)
    \/ CreatePageFind(t)
    \/ CreatePageWrite(t)
    \/ \E ok \in env.nav : NavPosts(t, ok)
    \/ \E elems \in env.post_elems : ReadPosts(t, elems)
    \/ PostsFind(t)
    \/ PostsWrite(t)
    \/ \E ok \in env.nav : NavPeople(t, ok)
    \/ \E elems \in env.employee_elems : ReadPeople(t, elems)
    \/ EmployeesDelete(t)
    \/ EmployeesInsert(t)
    \/ AssemblePosts(t)
    \/ AssembleEmployees(t)
    \/ AssembleStats(t)
    \/ GppLookup(t)
    \/ GppRead(t)
    \/ GpeLookup(t)
    \/ GpeRead(t)
    \/ DelLookup(t)
    \/ DelPage(t)
    \/ DelPosts(t)
    \/ DelEmployees(t)

\* Requests are served one at a time, by one thread: snapshot keeps the
\* collections as the request found them.
StartAlone(t, request) ==
    /\ Start(t, request)
    /\ snapshot' = <<pages, posts, employees>>

\* A document without its scraped_at.
Unstamped(doc) == [k \in DOMAIN doc \ {"scraped_at"} |-> doc[k]]

\* What the scraper returned to the request of thread t.
Scraped(t) ==
    <<Unstamped(loc[t].company_data), loc[t].posts_data, loc[t].employees_data>>

\* last keeps what the request was and how it ended.
FinishAlone(t) ==
    /\ Finish(t)
    /\ last' = [op |-> req[t].op, page_id |-> req[t].page_id,
                status |-> resp[t].status, scraped |-> Scraped(t)]

NextSeq ==
    \/ \E request \in AllRequests : StartAlone("t1", request)
    \/ Step("t1", EnvSeq)
    \/ FinishAlone("t1")

SpecSeq == Init /\ [][NextSeq]_vars

\* The threads serve requests concurrently, interleaved at the calls of the
\* store and of the browser.
StartAny(t, request) == Start(t, request) /\ UNCHANGED snapshot

FinishAny(t) == Finish(t) /\ UNCHANGED last

Next ==
    \E t \in Threads :
        \/ \E request \in DefaultRequests : StartAny(t, request)
        \/ Step(t, EnvConc)
        \/ FinishAny(t)

Spec == Init /\ [][Next]_vars

\* ---------------------------------------------------- listings and search
\* search_pages, lines 113-149.
SearchPagesRequest(filters, page, page_size) ==
    [op |-> "search_pages", filters |-> filters, page |-> page,
     page_size |-> page_size]

\* get_page_employees with the page and page_size given.
GetPageEmployeesAt(page_id, page, page_size) ==
    [op |-> "get_page_employees", page_id |-> page_id, page |-> page,
     page_size |-> page_size]

\* search_pages, lines 130-149.
SearchPages(t) ==
    /\ pc[t] = "search"
    /\ LET got == get_pages_with_filters(pages, req[t].filters, req[t].page,
                                         req[t].page_size)
       IN  Respond(t, 200,
               [items |-> got.items, total |-> got.total, page |-> req[t].page,
                page_size |-> req[t].page_size,
                total_pages |-> total_pages_of(got.total, req[t].page_size)])
    /\ UNCHANGED <<storeVars, sessVars, req, loc, ghostVars>>

\* A parameter that is left out, or given with one of the values.
Optional(key, values) == {<<>>} \cup {key :> v : v \in values}

Filters ==
    {mn @@ mx @@ nm @@ ind :
        mn \in Optional("min_followers", {0, 10, 11}),
        mx \in Optional("max_followers", {0, 10}),
        nm \in Optional("name", {<<>>, <<"c", "M">>, <<"o">>}),
        ind \in Optional("industry", {<<"S", "O", "F", "T">>})}

SearchRequests ==
    {SearchPagesRequest(f, page, page_size) :
        f \in Filters, page \in 1..MaxPage, page_size \in 1..MaxPageSize}

ListingRequests ==
    {GetPageEmployeesAt(p, page, page_size) :
        p \in PageIds, page \in 1..MaxPage,
        page_size \in 1..MaxPageSize \cup {ExamplePageSize}}
    \cup {GetPageEmployees(p) : p \in PageIds}
    \cup {GetPagePosts(p) : p \in PageIds}

\* get_page_details without force_scrape.
DetailRequests ==
    {GetPageDetails(p, ip, ie, FALSE) : p \in PageIds, ip \in BOOLEAN, ie \in BOOLEAN}

DeleteRequests == {DeletePage(p) : p \in PageIds}

\* The pages collections two create_page calls can leave.
PageStores ==
    LET one == {create_page(<<>>, d, 0).coll : d \in PageDatas}
    IN  {<<>>} \cup one
        \cup UNION {{create_page(coll, d, 1).coll : d \in PageDatas} : coll \in one}

\* The employees collections with n employees of page "a" beside the one of
\* page "b".
EmployeeStores ==
    {create_employees(SeedEmployees,
         scrape_company_employees("a", max_employees, [i \in 1..n |-> "Ann"])).coll :
        n \in 0..MaxListed \cup {ExampleListed}}

\* The posts after a scrape of page "a" whose max_posts posts carry no link.
ManyPosts ==
    create_posts(SeedPosts,
        scrape_company_posts("a", max_posts,
            [i \in 1..max_posts |-> [href |-> NoDoc, text |-> "hello"]])).coll

\* The employees after two ingestions of page "a" whose delete_many both ran
\* before either insert_many: the employees of both stay.
CrowdEmployees ==
    insert_many(
        create_employees(SeedEmployees,
            scrape_company_employees("a", max_employees,
                [i \in 1..max_employees |-> "Ann"])).coll,
        scrape_company_employees("a", max_employees,
            [i \in 1..LateEmployees |-> "Bob"]))

\* The databases a process can find: pages with or without the page asked
\* for, posts and employees of a page that is stored or not.
QueryDatabases ==
    {<<p, SeedPosts, SeedEmployees>> : p \in PageStores}
    \cup {<<p, SeedPosts, e>> : p \in {<<>>, SeedPages}, e \in EmployeeStores}
    \cup {<<SeedPages, po, e>> :
              po \in {SeedPosts, ManyPosts}, e \in {SeedEmployees, CrowdEmployees}}

\* A process that starts on one of these databases.
InitQuery ==
    /\ \E db \in QueryDatabases :
           pages = db[1] /\ posts = db[2] /\ employees = db[3]
    /\ comments = <<>>
    /\ now = 0
    /\ scraper_instance = 0
    /\ scrapers = <<>>
    /\ pc = [t \in Threads |-> "idle"]
    /\ req = [t \in Threads |-> NoRequest]
    /\ loc = [t \in Threads |-> NoLocals]
    /\ resp = [t \in Threads |-> NoResponse]
    /\ served = 0
    /\ snapshot = <<<<>>, <<>>, <<>>>>
    /\ last = NoLast
    /\ call = NoCall

\* One listing or search per behaviour: it reads only, a second one starts
\* from the same database.
StartQuery(t, request) ==
    /\ served = 0
    /\ StartAlone(t, request)

\* The details are asked of a stored page: the request is then answered
\* from the store.
NextQuery ==
    \/ \E request \in SearchRequests \cup ListingRequests \cup DeleteRequests :
           StartQuery("t1", request)
    \/ \E request \in DetailRequests :
           /\ get_page_by_id(pages, request.page_id) # NoDoc
           /\ StartQuery("t1", request)
    \/ SearchPages("t1")
    \/ GpeLookup("t1")
    \/ GpeRead("t1")
    \/ GppLookup("t1")
    \/ GppRead("t1")
    \/ GpdLookup("t1")
    \/ AssemblePosts("t1")
    \/ AssembleEmployees("t1")
    \/ AssembleStats("t1")
    \/ DelLookup("t1")
    \/ DelPage("t1")
    \/ DelPosts("t1")
    \/ DelEmployees("t1")
    \/ FinishAny("t1")

SpecQuery == InitQuery /\ [][NextQuery]_vars

\* --------------------------------------------------- comments and delete
\* The comment_data of scrape_post_comments for an element with this text;
\* author_name and created_at are set like text.
scrape_comment(text) == [text |-> text]

CommentBatches == SeqUpTo({scrape_comment(x) : x \in {"hi", "yo"}}, MaxComments)

\* The linkedin_post_ids of the posts of the two companies.
PostKeys == {LastSegment(SitePermalink(c)) : c \in PageIds}

\* create_comments called directly, between requests.
StoreCreateComments(post_id, list) ==
    /\ \A t \in Threads : pc[t] = "idle"
    /\ comments' = create_comments(comments, post_id, list).coll
    /\ call' = [op |-> "create_comments", arg |-> <<post_id, list>>,
                ret |-> create_comments(comments, post_id, list).ret,
                before |-> comments]
    /\ UNCHANGED <<pages, posts, employees, now, sessVars, threadVars, served,
                   snapshot, last>>

\* Comments are stored by direct calls; pages are deleted by delete_page.
NextComments ==
    \/ \E post_id \in PostKeys, list \in CommentBatches :
           StoreCreateComments(post_id, list)
    \/ \E request \in DeleteRequests : StartAlone("t1", request)
    \/ DelLookup("t1")
    \/ DelPage("t1")
    \/ DelPosts("t1")
    \/ DelEmployees("t1")
    \/ FinishAlone("t1")

SpecComments == Init /\ [][NextComments]_vars

\* ================================================================== claims
\* The linkedin_post_ids a list of posts carries.
PostIdsOf(list) ==
    {list[i]["linkedin_post_id"] :
        i \in {j \in 1..Len(list) : "linkedin_post_id" \in DOMAIN list[j]}}

\* The last post of the list with this linkedin_post_id.
LastWithId(list, id) ==
    list[CHOOSE i \in 1..Len(list) :
            /\ Matches(list[i], "linkedin_post_id", id)
            /\ \A j \in (i + 1)..Len(list) : ~Matches(list[j], "linkedin_post_id", id)]

\* C3: after any sequence of create_page calls the store holds at most one
\* Page per page_id, and the page of the latest call carries the follower
\* count of that call while the page of every other page_id is as the call
\* found it (so each page carries the count of the latest call for it).
C3_OnePagePerIdLatestFollowers ==
    /\ \A p \in PageIds : count_documents(pages, "page_id", p) <= 1
    /\ call.op = "create_page" =>
        /\ find_one(pages, "page_id", call.arg["page_id"])["followers_count"]
               = call.arg["followers_count"]
        /\ \A q \in PageIds \ {call.arg["page_id"]} :
               find(pages, "page_id", q) = find(call.before, "page_id", q)

\* C3 witness: a page upserted a second time with another follower count.
C3_Witness ==
    /\ call.op = "create_page"
    /\ Len(call.before) = 1
    /\ Len(pages) = 1
    /\ call.before[1]["followers_count"] = 0
    /\ pages[1]["followers_count"] = 10

\* C4: after create_page on an existing page_id the stored Page is exactly
\* the latest scrape result (with its scraped_at): no attribute keeps a
\* value of an earlier scrape, also not one the latest result leaves out.
C4_UpsertOverwritesAllFields ==
    (call.op = "create_page"
        /\ find_one(call.before, "page_id", call.arg["page_id"]) # NoDoc)
    => find_one(pages, "page_id", call.arg["page_id"]) = call.ret

\* C5: after any sequence of create_posts calls the store holds at most one
\* Post per linkedin_post_id; a call leaves, for every id of its list, the
\* last post of the list with that id, and every other post as it was; it
\* returns the number of ids of its list that were not stored before (each
\* counted once, 0 when all were stored).
C5_UpsertPostsByIdCountsInserted ==
    /\ \A id \in PostIdsOf(posts) :
           count_documents(posts, "linkedin_post_id", id) = 1
    /\ call.op = "create_posts" =>
        /\ \A id \in PostIdsOf(call.arg) :
               find_one(posts, "linkedin_post_id", id) = LastWithId(call.arg, id)
        /\ \A id \in PostIdsOf(call.before) \ PostIdsOf(call.arg) :
               find_one(posts, "linkedin_post_id", id)
                   = find_one(call.before, "linkedin_post_id", id)
        /\ PostIdsOf(posts) = PostIdsOf(call.before) \cup PostIdsOf(call.arg)
        /\ call.ret = Cardinality(PostIdsOf(call.arg) \ PostIdsOf(call.before))

\* C5 witness: a list that repeats one id, with two contents, for a post
\* already stored: one stored post, the last content, 0 returned.
C5_Witness ==
    /\ call.op = "create_posts"
    /\ Len(call.arg) = 2
    /\ call.arg[1]["linkedin_post_id"] = call.arg[2]["linkedin_post_id"]
    /\ call.arg[1]["content"] # call.arg[2]["content"]
    /\ PostIdsOf(call.arg) \subseteq PostIdsOf(call.before)
    /\ call.ret = 0
    /\ Len(posts) = 1

\* C6: create_employees with a non-empty list whose records all have
\* page_id P leaves exactly the records of the list as the employees of P,
\* returns the length of the list, and leaves the employees of every other
\* page unchanged.
C6_ReplaceEmployees ==
    (call.op = "create_employees" /\ Len(call.arg) > 0
        /\ \A i \in 1..Len(call.arg) : call.arg[i]["page_id"] = call.arg[1]["page_id"])
    => /\ find(employees, "page_id", call.arg[1]["page_id"]) = call.arg
       /\ call.ret = Len(call.arg)
       /\ \A q \in PageIds \ {call.arg[1]["page_id"]} :
              find(employees, "page_id", q) = find(call.before, "page_id", q)

\* C6 witness: page P had employees, another page has some, and P's were
\* replaced by a different list.
C6_Witness ==
    /\ call.op = "create_employees"
    /\ Len(call.arg) > 0
    /\ find(call.before, "page_id", call.arg[1]["page_id"]) # <<>>
    /\ find(call.before, "page_id", call.arg[1]["page_id"]) # call.arg
    /\ Len(employees) > Len(call.arg)

\* C7: create_employees with an empty list returns 0 and leaves the
\* employees collection unchanged.
C7_EmptyListIsNoOp ==
    (call.op = "create_employees" /\ Len(call.arg) = 0)
    => (call.ret = 0 /\ employees = call.before)

\* C7 witness: the empty list passed while employees are stored.
C7_Witness ==
    /\ call.op = "create_employees"
    /\ Len(call.arg) = 0
    /\ Len(call.before) > 0


\* A request of thread t has ended, and it was an ingestion in which
\* scrape_company_page returned a dict without a truthy name.
EndedWithoutName(t) ==
    /\ pc[t] = "done"
    /\ IsIngestion(req[t])
    /\ loc[t].company_data # NoDoc
    /\ Falsy(get(loc[t].company_data, "name"))

\* C1: an ingestion (get_page_details on an absent page or with
\* force_scrape, or scrape_page_now) whose login succeeded and whose
\* profile scrape returned no name ends with status 404, not 500.
C1_NoNameEndsNotFound ==
    \A t \in Threads : EndedWithoutName(t) => resp[t].status = 404

\* C2: an ingestion whose profile scrape returns no name writes nothing:
\* pages, posts and employees are as the request found them, and neither
\* scrape_company_posts nor scrape_company_employees was called.
C2_NoNameWritesNothing ==
    \A t \in Threads :
        EndedWithoutName(t) =>
            /\ <<pages, posts, employees>> = snapshot
            /\ loc[t].calls \cap {"posts", "employees"} = {}

C2_Witness ==
    /\ EndedWithoutName("t1")
    /\ "company" \in loc["t1"].calls
    /\ Len(snapshot[1]) > 0
    /\ get_page_by_id(pages, req["t1"].page_id) # NoDoc


\* A request of thread t has ended with status 200, and it was an ingestion
\* that called scrape_company_employees.
EndedIngestingEmployees(t) ==
    /\ pc[t] = "done"
    /\ IsIngestion(req[t])
    /\ resp[t].status = 200
    /\ "employees" \in loc[t].calls

EmployeesOf(coll, page_id) == find(coll, "page_id", page_id)

\* C8 as stated: after an ingestion of page P that scraped employees and
\* ended successfully, the employees stored for P are exactly the scraped
\* ones, for every result of 0 to 50 employees.
C8_IngestionReplacesEmployees ==
    \A t \in Threads :
        EndedIngestingEmployees(t) =>
            EmployeesOf(employees, req[t].page_id) = loc[t].employees_data

\* C8 amended: the same for every result of 1 to 50 employees; with an empty
\* result the employees stored for P are the ones the request found.
C8_IngestionReplacesNonEmpty ==
    \A t \in Threads :
        EndedIngestingEmployees(t) =>
            EmployeesOf(employees, req[t].page_id) =
                IF Len(loc[t].employees_data) > 0
                THEN loc[t].employees_data
                ELSE EmployeesOf(snapshot[3], req[t].page_id)

C8_Witness ==
    /\ EndedIngestingEmployees("t1")
    /\ Len(loc["t1"].employees_data) > 0
    /\ Len(EmployeesOf(snapshot[3], req["t1"].page_id)) > 0
    /\ EmployeesOf(snapshot[3], req["t1"].page_id) # loc["t1"].employees_data
    /\ EmployeesOf(employees, req["t1"].page_id) = loc["t1"].employees_data

\* delete_page of thread t has ended with status 200.
DeleteEnded(t) ==
    /\ pc[t] = "done"
    /\ req[t].op = "delete_page"
    /\ resp[t].status = 200

\* The request of thread t has ended; it is about the page the request
\* before it deleted.
EndedAfterDelete(t) ==
    /\ pc[t] = "done"
    /\ last.op = "delete_page"
    /\ last.status = 200
    /\ req[t].page_id = last.page_id

\* What delete_page leaves in the store: no page, post or employee of its
\* page_id, and every document of any other page_id as it was.
DeleteCascaded(t) ==
    LET P == req[t].page_id
    IN  /\ get_page_by_id(pages, P) = NoDoc
        /\ find(posts, "page_id", P) = <<>>
        /\ EmployeesOf(employees, P) = <<>>
        /\ \A q \in PageIds \ {P} :
               /\ find(pages, "page_id", q) = find(snapshot[1], "page_id", q)
               /\ find(posts, "page_id", q) = find(snapshot[2], "page_id", q)
               /\ EmployeesOf(employees, q) = EmployeesOf(snapshot[3], q)

C10_NoOrphansWhenQuiet ==
    (\A t \in Threads : pc[t] \in {"idle", "done"}) =>
        /\ \A i \in 1..Len(posts) :
               get_page_by_id(pages, posts[i]["page_id"]) # NoDoc
        /\ \A i \in 1..Len(employees) :
               get_page_by_id(pages, employees[i]["page_id"]) # NoDoc

\* get_page_details of thread t has ended.
DetailsEnded(t) == pc[t] = "done" /\ req[t].op = "get_page_details"

\* C11: get_page_details for a page_id the store holds, with force_scrape
\* false, gets no scraper, makes no login and no scrape call and writes
\* nothing; it takes the scraping branch exactly when the page is absent or
\* force_scrape is true.
C11_StoredPageIsOnlyRead ==
    \A t \in Threads :
        DetailsEnded(t) =>
            LET stored == get_page_by_id(snapshot[1], req[t].page_id) # NoDoc
            IN  IF stored /\ ~req[t].force_scrape
                THEN /\ loc[t].scraper = 0
                     /\ loc[t].calls = {}
                     /\ <<pages, posts, employees>> = snapshot
                     /\ resp[t].status = 200
                ELSE /\ loc[t].scraper # 0
                     /\ loc[t].calls # {}

C11_Witness ==
    /\ DetailsEnded("t1")
    /\ get_page_by_id(snapshot[1], req["t1"].page_id) # NoDoc
    /\ ~req["t1"].force_scrape
    /\ resp["t1"].status = 200
    /\ scrapers = <<>>

ScrapeCalls == {"company", "posts", "employees"}

\* The session of the scraper thread t holds is LoggedIn.
LoggedIn(t) == loc[t].scraper # 0 /\ scrapers[loc[t].scraper].is_logged_in

\* C12: no scrape call is made while the session is LoggedOut; an ingestion
\* that finds it LoggedOut attempts a login first, and when the login fails
\* it ends with status 500 having made no scrape call and no store write.
C12_ScrapeOnlyLoggedIn ==
    \A t \in Threads :
        /\ (loc[t].calls \cap ScrapeCalls # {}) => LoggedIn(t)
        /\ pc[t] \in {"nav_company", "read_company", "nav_posts", "read_posts",
                      "nav_people", "read_people"} => LoggedIn(t)
        /\ (pc[t] = "done" /\ IsIngestion(req[t]) /\ loc[t].scraper # 0
            /\ ~LoggedIn(t))
           => /\ loc[t].calls = {"login"}
              /\ resp[t].status = 500
              /\ <<pages, posts, employees>> = snapshot

C12_Witness ==
    /\ pc["t1"] = "done"
    /\ IsIngestion(req["t1"])
    /\ loc["t1"].calls = {"login"}
    /\ ~LoggedIn("t1")
    /\ resp["t1"].status = 500
    /\ Len(snapshot[1]) > 0

ScrapeMethods ==
    {"scrape_company_page", "scrape_company_posts", "scrape_company_employees"}

\* C13: a scraper starts LoggedOut; is_logged_in goes from false to true
\* only in a login() that succeeds and from true to false only in close();
\* a scrape method and a failed login leave it as it is; login() on a
\* LoggedIn scraper returns True and does not touch the browser.
C13_SessionStates ==
    /\ call.op = "__init__" => ~scrapers[1].is_logged_in
    /\ call.op \in ScrapeMethods \cup {"login", "close"} =>
        LET b == call.before
            a == scrapers[1]
        IN  /\ (~b.is_logged_in /\ a.is_logged_in) =>
                   (call.op = "login" /\ call.arg = "ok" /\ call.ret = TRUE)
            /\ (b.is_logged_in /\ ~a.is_logged_in) => call.op = "close"
            /\ call.op \in ScrapeMethods => a.is_logged_in = b.is_logged_in
            /\ (call.op = "login" /\ call.arg # "ok") =>
                   a.is_logged_in = b.is_logged_in
            /\ (call.op = "login" /\ b.is_logged_in) =>
                   (a = b /\ call.ret = TRUE)

C13_Witness ==
    /\ call.op = "login"
    /\ call.arg = "fail"
    /\ call.before.is_logged_in
    /\ call.before.driver = CompanyUrl("a")
    /\ scrapers[1] = call.before
    /\ call.ret = TRUE

\* An ingestion of thread t has ended without success after create_page
\* returned: the posts scrape or the employees scrape raised.
FailedAfterPage(t) ==
    /\ pc[t] = "done"
    /\ IsIngestion(req[t])
    /\ loc[t].company_data # NoDoc
    /\ "scraped_at" \in DOMAIN loc[t].company_data
    /\ resp[t].status # 200

\* C14: when the posts scrape or the employees scrape raises after the page
\* was upserted, the request ends with status 500 and what was written
\* stays: the page, and the posts when the employees scrape is the one that
\* raised; the employees are as the request found them.
C14_FailureKeepsCommittedWrites ==
    \A t \in Threads :
        FailedAfterPage(t) =>
            LET P == req[t].page_id
            IN  /\ resp[t].status = 500
                /\ pages = create_page_write(snapshot[1],
                               find_one(snapshot[1], "page_id", P),
                               loc[t].company_data).coll
                /\ get_page_by_id(pages, P)["scraped_at"]
                       = loc[t].company_data["scraped_at"]
                /\ posts = create_posts(snapshot[2], loc[t].posts_data).coll
                /\ employees = snapshot[3]

C14_Witness ==
    /\ FailedAfterPage("t1")
    /\ resp["t1"].status = 500
    /\ "employees" \in loc["t1"].calls
    /\ get_page_by_id(snapshot[1], req["t1"].page_id) = NoDoc
    /\ get_page_by_id(pages, req["t1"].page_id) # NoDoc
    /\ Len(posts) > Len(snapshot[2])

UnstampedAll(coll) == [i \in 1..Len(coll) |-> Unstamped(coll[i])]

\* scrape_page_now of thread t has ended with status 200, right after
\* another scrape_page_now of the same page that ended with status 200 and
\* to which the scraper returned the same profile, posts and employees.
RerunEnded(t) ==
    /\ pc[t] = "done"
    /\ req[t].op = "scrape_page_now"
    /\ resp[t].status = 200
    /\ last.op = "scrape_page_now"
    /\ last.page_id = req[t].page_id
    /\ last.status = 200
    /\ last.scraped = Scraped(t)

\* C15: running scrape_page_now for page P twice in a row with the same
\* scrape results leaves the pages (scraped_at aside), the posts and the
\* employees of every page as the first run left them; nothing is appended.
C15_RerunIsIdempotent ==
    \A t \in Threads :
        RerunEnded(t) =>
            /\ UnstampedAll(pages) = UnstampedAll(snapshot[1])
            /\ posts = snapshot[2]
            /\ \A q \in PageIds :
                   EmployeesOf(employees, q) = EmployeesOf(snapshot[3], q)

C15_Witness ==
    /\ RerunEnded("t1")
    /\ Len(loc["t1"].posts_data) > 0
    /\ Len(loc["t1"].employees_data) > 0
    /\ pages # snapshot[1]
    /\ loc["t1"].posts_data[1]["linkedin_post_id"] = "a-post-0"

\* A search or an employees listing of thread t has ended with its envelope.
ListingEnded(t) ==
    /\ pc[t] = "done"
    /\ req[t].op \in {"search_pages", "get_page_employees"}
    /\ resp[t].status = 200

\* text contains pattern, letter case ignored; a field that is missing or
\* None contains the empty pattern only.
ContainsCI(doc, key, pattern) ==
    LET text == IF key \in DOMAIN doc THEN Chars(doc[key]) ELSE <<>>
        low(s) == [n \in 1..Len(s) |-> Lower(s[n])]
    IN  \E i \in 1..(Len(text) + 1) :
            \E j \in (i - 1)..Len(text) : low(SubSeq(text, i, j)) = low(pattern)

Given(filters, key) == key \in DOMAIN filters

\* The page satisfies every filter that is given.
IsMatch(doc, filters) ==
    /\ Given(filters, "min_followers") =>
           doc["followers_count"] >= filters["min_followers"]
    /\ Given(filters, "max_followers") =>
           doc["followers_count"] <= filters["max_followers"]
    /\ Given(filters, "name") => ContainsCI(doc, "name", filters["name"])
    /\ Given(filters, "industry") => ContainsCI(doc, "industry", filters["industry"])

\* The positions of the records the request of thread t asks for.
Matching(t) ==
    IF req[t].op = "search_pages"
    THEN {i \in DOMAIN pages : IsMatch(pages[i], req[t].filters)}
    ELSE {i \in DOMAIN employees : employees[i]["page_id"] = req[t].page_id}

Max(m, n) == IF m >= n THEN m ELSE n

\* The least number of pages of page_size records that hold total records.
Ceil(total, page_size) ==
    CHOOSE k \in 0..total : k * page_size >= total /\ (k - 1) * page_size < total

\* C16: the envelope of search_pages and of get_page_employees: total is
\* the number of all matching records whatever page is asked for, items
\* holds min(page_size, max(0, total - (page - 1) * page_size)) records, and
\* total_pages is ceil(total / page_size), 0 when total is 0; 25 records
\* at 10 a page are 3 pages.
C16_PaginationEnvelope ==
    /\ total_pages_of(ExampleListed, ExamplePageSize) = 3
    /\ \A t \in Threads :
           ListingEnded(t) =>
               LET total == Cardinality(Matching(t))
                   body == resp[t].body
               IN  /\ body.total = total
                   /\ Len(body.items) =
                          Min(req[t].page_size,
                              Max(0, total - (req[t].page - 1) * req[t].page_size))
                   /\ body.total_pages =
                          IF total = 0 THEN 0 ELSE Ceil(total, req[t].page_size)
                   /\ body.page = req[t].page
                   /\ body.page_size = req[t].page_size

\* The example, on the employees listing: 25 records, page 1 of 10.
C16_Witness ==
    /\ ListingEnded("t1")
    /\ req["t1"].page = 1
    /\ req["t1"].page_size = ExamplePageSize
    /\ resp["t1"].body.total = ExampleListed
    /\ resp["t1"].body.total_pages = 3
    /\ Len(resp["t1"].body.items) = ExamplePageSize

\* C17: the filters of search_pages are combined with AND and the follower
\* range is inclusive at both ends: the items and the total are those of the
\* stored pages that satisfy every given filter, in stored order; without a
\* filter every stored page matches.
C17_FiltersAreConjoined ==
    \A t \in Threads :
        (ListingEnded(t) /\ req[t].op = "search_pages") =>
            LET f == req[t].filters
                matches == SelectSeq(pages, LAMBDA d : IsMatch(d, f))
            IN  /\ resp[t].body.total = Len(matches)
                /\ \A i \in 1..Len(resp[t].body.items) :
                       resp[t].body.items[i] =
                           matches[(req[t].page - 1) * req[t].page_size + i]
                /\ DOMAIN f = {} => resp[t].body.total = Len(pages)

\* A page with 10 followers is found by min_followers = max_followers = 10
\* together with a name and an industry filter, beside a stored page that
\* the name filter rejects.
C17_Witness ==
    /\ ListingEnded("t1")
    /\ req["t1"].op = "search_pages"
    /\ DOMAIN req["t1"].filters =
           {"min_followers", "max_followers", "name", "industry"}
    /\ req["t1"].filters["min_followers"] = 10
    /\ req["t1"].filters["max_followers"] = 10
    /\ req["t1"].filters["name"] = <<"c", "M">>
    /\ Len(pages) = 2
    /\ resp["t1"].body.total = 1
    /\ Len(resp["t1"].body.items) = 1

\* The documents of coll that carry page_id p, in stored order.
OfPage(coll, p) == SelectSeq(coll, LAMBDA d : d["page_id"] = p)

\* The first n elements of s, all of s when it has fewer.
FirstN(s, n) == [i \in 1..(IF Len(s) < n THEN Len(s) ELSE n) |-> s[i]]

\* C18: the answer of get_page_details holds at most 15 posts and at most
\* 50 employees, the first ones of the requested page, an empty list where
\* include_posts or include_employees is false, and in every case
\* total_posts and total_employees are the numbers of posts and employees
\* stored for the page, which may exceed the lists.
C18_DetailsAreCappedTotalsAreNot ==
    \A t \in Threads :
        (DetailsEnded(t) /\ resp[t].status = 200) =>
            LET body == resp[t].body
                p == req[t].page_id
            IN  /\ body.posts =
                       IF req[t].include_posts
                       THEN FirstN(OfPage(posts, p), detail_posts_limit) ELSE <<>>
                /\ body.employees =
                       IF req[t].include_employees
                       THEN FirstN(OfPage(employees, p), detail_employees_page_size)
                       ELSE <<>>
                /\ Len(body.posts) <= 15
                /\ Len(body.employees) <= 50
                /\ body.total_posts = Len(OfPage(posts, p))
                /\ body.total_employees = Len(OfPage(employees, p))

\* 60 employees and 16 posts are stored for the page: 50 and 15 are
\* returned, the totals are 60 and 16.
C18_Witness ==
    /\ DetailsEnded("t1")
    /\ resp["t1"].status = 200
    /\ Len(resp["t1"].body.employees) = 50
    /\ resp["t1"].body.total_employees = 60
    /\ Len(resp["t1"].body.posts) = 15
    /\ resp["t1"].body.total_posts = 16

\* A listing of posts or employees or a delete of thread t has ended; the
\* store held no page with its page_id when it started.
EndedOnAbsentPage(t) ==
    /\ pc[t] = "done"
    /\ req[t].op \in {"get_page_posts", "get_page_employees", "delete_page"}
    /\ get_page_by_id(snapshot[1], req[t].page_id) = NoDoc

\* C19: get_page_posts, get_page_employees and delete_page for a page_id
\* without a page in the store answer 404 and leave pages, posts and
\* employees as they were, also when posts or employees with that page_id
\* are stored.
C19_AbsentPageIsNotFound ==
    \A t \in Threads :
        EndedOnAbsentPage(t) =>
            /\ resp[t].status = 404
            /\ <<pages, posts, employees>> = snapshot

\* A delete of a page that is not stored while a post and an employee with
\* its page_id are.
C19_Witness ==
    /\ EndedOnAbsentPage("t1")
    /\ req["t1"].op = "delete_page"
    /\ Len(OfPage(posts, req["t1"].page_id)) > 0
    /\ Len(OfPage(employees, req["t1"].page_id)) > 0
    /\ resp["t1"].status = 404

\* The company whose page the browser of the scraper of thread t shows.
ShownTo(t) == Shown(scrapers[loc[t].scraper].driver)

\* C20: the requests share one scraper session without mutual exclusion:
\* what scrape_company_page reads is the page the session shows when it
\* reads, whichever request sent it there, and it is kept under the page_id
\* of the reading request; between a request's driver.get and its reading
\* the other request can send the session to its own page.
C20_ReadsWhatTheSessionShows ==
    [][\A t \in Threads :
           (pc[t] = "read_company" /\ pc'[t] # "read_company") =>
               /\ loc'[t].company_data["page_id"] = req[t].page_id
               /\ loc'[t].company_data["name"] # None =>
                      /\ ShownTo(t) \in PageIds
                      /\ loc'[t].company_data["name"] = SiteName(ShownTo(t))]_vars

\* Two ingestions on the one scraper: the page stored under page_id "a"
\* carries the name read from the page of company "b".
C20_Witness ==
    /\ Len(scrapers) = 1
    /\ \E i \in DOMAIN pages :
           /\ pages[i]["page_id"] = "a"
           /\ pages[i]["url"] = CompanyUrl("a")
           /\ pages[i]["name"] = SiteName("b")

\* No stored page carries the name of another company: an invariant of
\* SpecSeq, where the requests follow each other.
NamesAreOwn ==
    \A i \in DOMAIN pages : pages[i]["name"] = SiteName(pages[i]["page_id"])

\* Thread t has passed the delete_many of create_employees and not yet its
\* insert_many.
Replacing(t) == pc[t] = "emp_insert"

\* C21: create_employees is not atomic for readers: its delete_many is a
\* step of its own, after which the store holds no employee of the page
\* while the non-empty new list is still to be inserted and every other
\* thread may run; get_page_employees then answers what the store holds at
\* that moment.
C21_ReplaceLeavesAGap ==
    [][/\ \A t \in Threads :
              (pc[t] = "emp_delete" /\ Replacing(t)') =>
                  /\ Len(loc[t].employees_data) > 0
                  /\ OfPage(employees', req[t].page_id) = <<>>
       /\ \A t \in Threads :
              (pc[t] = "gpe_read" /\ pc'[t] = "done") =>
                  /\ resp'[t].body.total = Len(OfPage(employees, req[t].page_id))
                  /\ resp'[t].body.items =
                         FirstN(OfPage(employees, req[t].page_id), req[t].page_size)]_vars

\* The reader of page "a" got an empty list with total 0 while the other
\* thread is between the delete and the insert of a non-empty list for "a";
\* the database was the seeded one (the employee of "b" is there, and these
\* are the two requests of the behaviour), so "a" had an employee before.
C21_Witness ==
    /\ pc["t2"] = "done"
    /\ req["t2"] = GetPageEmployees("a")
    /\ resp["t2"].status = 200
    /\ resp["t2"].body.total = 0
    /\ resp["t2"].body.items = <<>>
    /\ Replacing("t1")
    /\ req["t1"].page_id = "a"
    /\ Len(loc["t1"].employees_data) > 0
    /\ served = 2
    /\ Len(OfPage(employees, "b")) > 0

\* No request of the concurrent specification deletes page p: the calls
\* that write its records are upserts only.
OnlyUpserted(p) ==
    \A r \in DefaultRequests : r.op = "delete_page" => r.page_id # p

\* The create_page of thread t returns: no exception ends the request, and
\* one page with its page_id is stored.
PageUpsertCompletes(t) ==
    (pc[t] = "cp_write" /\ pc'[t] # "cp_write" /\ OnlyUpserted(req[t].page_id)) =>
        /\ pc'[t] = "done" => resp'[t].status = 200
        /\ count_documents(pages', "page_id", req[t].page_id) = 1

\* The turn of the loop of create_posts of thread t leaves its post in the
\* store, and a post that find_one did not find is inserted and counted: it
\* is not skipped.
PostUpsertKept(t) ==
    (pc[t] = "posts_write" /\ pc'[t] # "posts_write"
     /\ OnlyUpserted(req[t].page_id)) =>
        LET post == loc[t].posts_data[loc[t].idx]
        IN  /\ find_one(posts', "linkedin_post_id", post["linkedin_post_id"]) = post
            /\ count_documents(posts', "linkedin_post_id",
                               post["linkedin_post_id"]) = 1
            /\ loc[t].existing = NoDoc =>
                   loc'[t].inserted_count = loc[t].inserted_count + 1

PageUpsertsComplete == [][\A t \in Threads : PageUpsertCompletes(t)]_vars

PostUpsertsKept == [][\A t \in Threads : PostUpsertKept(t)]_vars

\* C22: under every interleaving of two create_page calls for one page_id,
\* or of two create_posts calls that share a linkedin_post_id, both calls
\* complete without an error, no post is skipped, and the store holds one
\* record for the key with the data of one of the calls.
C22_ConcurrentUpsertsAreSafe ==
    [][\A t \in Threads : PageUpsertCompletes(t) /\ PostUpsertKept(t)]_vars

\* C23: there is one scraper session for the whole process: at most one
\* LinkedInScraperService has been constructed, also after two requests made
\* the first call of get_scraper concurrently, and every request that has
\* got a scraper has that one.
C23_OneScraperInstance ==
    /\ Len(scrapers) <= 1
    /\ \A t \in Threads : loc[t].scraper \in {0, scraper_instance}

\* The positions of the records of the list that fail in create_posts.
Failing(list) == {i \in 1..Len(list) : "linkedin_post_id" \notin DOMAIN list[i]}

\* C24: create_posts skips a record that fails (one without
\* linkedin_post_id) and goes on: every other post of the list, before and
\* after it, is upserted, the failing record is not stored, and the call
\* returns the number of posts it inserted.
C24_FailingPostIsSkipped ==
    /\ \A i \in 1..Len(posts) : "linkedin_post_id" \in DOMAIN posts[i]
    /\ (call.op = "create_posts" /\ Failing(call.arg) # {}) =>
           /\ \A i \in (1..Len(call.arg)) \ Failing(call.arg) :
                  find_one(posts, "linkedin_post_id", call.arg[i]["linkedin_post_id"])
                      = LastWithId(call.arg, call.arg[i]["linkedin_post_id"])
           /\ Len(posts) = Len(call.before) + call.ret
           /\ call.ret = Cardinality(PostIdsOf(posts) \ PostIdsOf(call.before))
           /\ \A i \in 1..Len(call.before) : posts[i]["linkedin_post_id"]
                  = call.before[i]["linkedin_post_id"]

\* A list of three whose second record fails, on an empty collection: the
\* first and the third are inserted, 2 is returned.
C24_Witness ==
    /\ call.op = "create_posts"
    /\ Len(call.arg) = 3
    /\ Failing(call.arg) = {2}
    /\ call.before = <<>>
    /\ call.ret = 2
    /\ Len(posts) = 2
    /\ posts[1] = call.arg[1]
    /\ posts[2] = call.arg[3]

\* An ingestion of thread t has ended with success.
IngestionSucceeded(t) ==
    /\ pc[t] = "done"
    /\ IsIngestion(req[t])
    /\ resp[t].status = 200
    /\ loc[t].scraper # 0

\* C25: scrape_page_now with scrape_posts false calls no posts scrape,
\* leaves the posts collection as it was and reports 0 posts; with
\* scrape_employees false the same for the employees; the page is upserted
\* in both cases.  get_page_details, when it scrapes, scrapes and commits
\* posts and employees whatever include_posts and include_employees are.
C25_FlagsOfTheTwoIngestions ==
    \A t \in Threads :
        IngestionSucceeded(t) =>
            LET P == req[t].page_id
            IN  /\ get_page_by_id(pages, P) # NoDoc
                /\ get_page_by_id(pages, P)["scraped_at"]
                       = loc[t].company_data["scraped_at"]
                /\ IF req[t].op = "scrape_page_now"
                   THEN /\ ~req[t].scrape_posts =>
                               /\ "posts" \notin loc[t].calls
                               /\ posts = snapshot[2]
                               /\ resp[t].body.posts_scraped = 0
                        /\ ~req[t].scrape_employees =>
                               /\ "employees" \notin loc[t].calls
                               /\ employees = snapshot[3]
                               /\ resp[t].body.employees_scraped = 0
                        /\ req[t].scrape_posts => "posts" \in loc[t].calls
                        /\ req[t].scrape_employees => "employees" \in loc[t].calls
                   ELSE /\ {"posts", "employees"} \subseteq loc[t].calls
                        /\ PostIdsOf(loc[t].posts_data) \subseteq PostIdsOf(posts)
                        /\ Len(loc[t].employees_data) > 0 =>
                               OfPage(employees, P) = loc[t].employees_data

\* A manual scrape without posts of a page with a stored post: the post
\* stays, 0 posts are reported, the employees are scraped and replaced.
C25_Witness ==
    /\ IngestionSucceeded("t1")
    /\ req["t1"].op = "scrape_page_now"
    /\ ~req["t1"].scrape_posts
    /\ req["t1"].scrape_employees
    /\ Len(OfPage(posts, req["t1"].page_id)) > 0
    /\ resp["t1"].body.posts_scraped = 0
    /\ resp["t1"].body.employees_scraped > 0
    /\ get_page_by_id(pages, req["t1"].page_id)["scraped_at"] >= 0

\* Both threads have ended ingestions of one page with success, each with a
\* non-empty list of scraped employees.
BothIngested ==
    /\ \A t \in Threads : IngestionSucceeded(t) /\ Len(loc[t].employees_data) > 0
    /\ req["t1"].page_id = req["t2"].page_id

\* C26: when two ingestions of one page run concurrently and both complete,
\* the employees stored for the page are the list of one of the two, never
\* both lists together and never more than 50 records.
C26_EmployeesOfOneRun ==
    BothIngested =>
        /\ OfPage(employees, req["t1"].page_id)
               \in {loc["t1"].employees_data, loc["t2"].employees_data}
        /\ Len(OfPage(employees, req["t1"].page_id)) <= max_employees

\* The comments of coll with this post_id, in stored order.
CommentsOf(coll, post_id) == SelectSeq(coll, LAMBDA d : d["post_id"] = post_id)

\* create_comments replaces the comments of its post: after a call with a
\* non-empty list the comments of the post are the list with post_id set,
\* those of other posts are as before; a call with an empty list changes
\* nothing and returns 0.
CommentsAreReplaced ==
    call.op = "create_comments" =>
        LET X == call.arg[1]
            list == call.arg[2]
        IN  IF Len(list) = 0
            THEN comments = call.before /\ call.ret = 0
            ELSE /\ Len(CommentsOf(comments, X)) = Len(list)
                 /\ \A i \in 1..Len(list) :
                        CommentsOf(comments, X)[i] = [text |-> list[i].text, post_id |-> X]
                 /\ \A Y \in PostKeys \ {X} :
                        CommentsOf(comments, Y) = CommentsOf(call.before, Y)
                 /\ call.ret = Len(list)

\* After delete_page ended with success no comment of a post of the deleted
\* page is stored.
CommentsAreCascaded ==
    \A t \in Threads :
        DeleteEnded(t) =>
            \A i \in 1..Len(snapshot[2]) :
                snapshot[2][i]["page_id"] = req[t].page_id =>
                    CommentsOf(comments, snapshot[2][i]["linkedin_post_id"]) = <<>>

\* C27: create_comments with a non-empty list for post X removes the stored
\* comments of X, stores the new list with post_id X and leaves the comments
\* of other posts; with an empty list it does nothing and returns 0; and
\* after the page that owns post X is deleted no comment of X is stored.
C27_CommentsReplacedAndCascaded ==
    CommentsAreReplaced /\ CommentsAreCascaded

\* ------------------------------------------------------------ termination
\* The requests of the fair specification: one of each kind, all for the
\* same company, so that two ingestions meet on one page.
FairRequests ==
    {ScrapePageNow("a", TRUE, TRUE), GetPageDetails("a", TRUE, TRUE, FALSE),
     GetPagePosts("a"), GetPageEmployees("a"), DeletePage("a")}

NextFair ==
    \E t \in Threads :
        \/ \E request \in FairRequests : StartAny(t, request)
        \/ Step(t, EnvConc)
        \/ FinishAny(t)

\* The handlers are synchronous functions on the worker threads of the
\* server: a handler whose next call can return or raise is not left
\* waiting for ever (every scraper and store call returns or raises).  No
\* request has to arrive and no response has to be collected.
FairSpec ==
    Init /\ [][NextFair]_vars /\ \A t \in Threads : WF_pc(Step(t, EnvConc))

\* Thread t is inside get_page_details or scrape_page_now.
Ingesting(t) == IsIngestion(req[t]) /\ pc[t] \notin {"idle", "done"}

\* The ingestion of thread t has ended: a success result, Not-Found or
\* Ingestion-Failed.
EndedIngestion(t) ==
    /\ pc[t] = "done"
    /\ IsIngestion(req[t])
    /\ resp[t].status \in {200, 404, 500}

\* Whatever the other thread does, an ingestion has a next step to take.
NeverWaits == \A t \in Threads : Ingesting(t) => ENABLED Step(t, EnvConc)

\* C28: once an ingestion starts it runs to completion or throws.  Provided
\* every scraper and store call returns or raises, every get_page_details
\* and scrape_page_now request that has started eventually ends with one
\* response, whose status is 200, 404 or 500; it has no retry loop, and at
\* no point does it wait on the other request.
C28_IngestionEnds ==
    /\ []NeverWaits
    /\ \A t \in Threads : Ingesting(t) ~> EndedIngestion(t)

\* One ingestion has ended with a success result while the other thread
\* is still inside its own ingestion.
C28_Witness ==
    /\ EndedIngestion("t1")
    /\ resp["t1"].status = 200
    /\ Ingesting("t2")

====
